---- MODULE Spec2Model ----
(***************************************************************************)
(* Webhook ingestion and projection pipeline of cross_bow.                 *)
(*                                                                         *)
(* The persistent store (tables events, webhook_events, repositories,      *)
(* commits, pull_requests, issues) and the detached projection tasks are   *)
(* the state.  Each HTTP handler is one action; each database statement of *)
(* a projection task is one action step, so that concurrently running      *)
(* tasks interleave at statement granularity.                              *)
(***************************************************************************)
EXTENDS Integers, Sequences, FiniteSets, TLC

(***************************************************************************)
(* Bounds of the model.                                                    *)
(***************************************************************************)
\* requests that may reach the storage layer (rows of events/webhook_events)
MaxEvents == 2
\* ticks of the wall clock read by NOW()
MaxClock == 1
\* width of the integers that model i64
IntBits == 12

(***************************************************************************)
(* Option<T>: None is the empty sequence, Some(x) the one-element sequence. *)
(***************************************************************************)
None == <<>>
Some(x) == <<x>>
IsSome(o) == Len(o) = 1
IsNone(o) == Len(o) = 0
Unwrap(o) == o[1]
\* Option::or_else
OrElse(o, p) == IF IsSome(o) THEN o ELSE p
\* Option::unwrap_or
UnwrapOr(o, d) == IF IsSome(o) THEN o[1] ELSE d

(***************************************************************************)
(* serde_json::Value, tagged by its kind.                                  *)
(***************************************************************************)
JNull == [t |-> "null"]
JStr(s) == [t |-> "str", s |-> s]
JInt(i) == [t |-> "int", i |-> i]
JBool(b) == [t |-> "bool", b |-> b]
JArr(a) == [t |-> "arr", a |-> a]
JObj(o) == [t |-> "obj", o |-> o]

\* Index<&str> for Value: a missing key, or indexing a non-object, is Null
Idx(j, k) == IF j.t = "obj" THEN (IF k \in DOMAIN j.o THEN j.o[k] ELSE JNull) ELSE JNull
Idx2(j, k1, k2) == Idx(Idx(j, k1), k2)
\* Value::as_str, as_i64, as_bool, as_array, as_object
as_str(j) == IF j.t = "str" THEN Some(j.s) ELSE None
as_i64(j) == IF j.t = "int" THEN Some(j.i) ELSE None
as_bool(j) == IF j.t = "bool" THEN Some(j.b) ELSE None
as_array(j) == IF j.t = "arr" THEN Some(j.a) ELSE None
as_object(j) == IF j.t = "obj" THEN Some(j.o) ELSE None

(***************************************************************************)
(* Signature verification (utils/signature.rs).                            *)
(* Strings that are inspected character by character are sequences of      *)
(* one-character strings.                                                  *)
(***************************************************************************)
Sha256Prefix == <<"s", "h", "a", "2", "5", "6", "=">>

\* str::strip_prefix
strip_prefix_Unchecked(s, p) ==
    IF Len(s) >= Len(p)
    THEN Some(SubSeq(s, Len(p) + 1, Len(s)))
    ELSE None

strip_prefix(s, p) ==
    IF Len(s) >= Len(p) /\ SubSeq(s, 1, Len(p)) = p
    THEN Some(SubSeq(s, Len(p) + 1, Len(s)))
    ELSE None

HexLower == <<"0", "1", "2", "3", "4", "5", "6", "7", "8", "9", "a", "b", "c", "d", "e", "f">>
HexUpper == <<"0", "1", "2", "3", "4", "5", "6", "7", "8", "9", "A", "B", "C", "D", "E", "F">>

\* value of one hex digit (either case), None for any other character
HexVal(c) ==
    IF \E i \in 1..16 : HexLower[i] = c
    THEN Some((CHOOSE i \in 1..16 : HexLower[i] = c) - 1)
    ELSE IF \E i \in 1..16 : HexUpper[i] = c
    THEN Some((CHOOSE i \in 1..16 : HexUpper[i] = c) - 1)
    ELSE None

\* hex::encode: two lower-case digits per byte
RECURSIVE hex_encode(_)
hex_encode(bytes) ==
    IF bytes = <<>> THEN <<>>
    ELSE <<HexLower[(Head(bytes) \div 16) + 1], HexLower[(Head(bytes) % 16) + 1]>>
         \o hex_encode(Tail(bytes))

\* hex::decode: Err (None) on odd length or on a character that is no hex digit
RECURSIVE hex_decode(_)
hex_decode(s) ==
    IF Len(s) % 2 = 1 THEN None
    ELSE IF s = <<>> THEN Some(<<>>)
    ELSE LET hi == HexVal(s[1])
             lo == HexVal(s[2])
             rest == hex_decode(SubSeq(s, 3, Len(s)))
         IN IF IsNone(hi) \/ IsNone(lo) \/ IsNone(rest) THEN None
            ELSE Some(<<Unwrap(hi) * 16 + Unwrap(lo)>> \o Unwrap(rest))

(***************************************************************************)
(* Secrets, raw request bodies and the keyed digest.                       *)
(* HMAC-SHA256 is abstracted as a collision-free function of the secret    *)
(* and of the body bytes: the digest holds the number of the secret and    *)
(* the number of the body.                                                 *)
(***************************************************************************)
Secrets == <<"s3cret", "other">>
\* Config.github_webhook_secret
github_webhook_secret == "s3cret"

\* raw bodies (bytes); "ping " is "ping" followed by white space
BodyNames ==
    <<"garbage", "ping", "ping ", "push2", "custom", "custom-push", "pr", "issue",
      "pr-nobase", "issue-nouser", "issue-badtime", "push-badcommit", "push-badtime",
      "pr-badcreated", "pr-badclosed", "issue-badclosed", "push-renamed", "push-other",
      "pr-reopened", "pr-merged", "issue-closed", "gitlab-push", "typed", "event-only",
      "push-senderid">>
Bodies == {BodyNames[i] : i \in 1..Len(BodyNames)}

IndexOf(seq, x) == CHOOSE i \in 1..Len(seq) : seq[i] = x

HmacSha256(secret, body) == <<IndexOf(Secrets, secret) * 16 + 1, IndexOf(BodyNames, body) * 8 + 2>>

\* subtle::ConstantTimeEq for slices: unequal lengths are unequal
ct_eq_FirstByte(a, b) == a # <<>> /\ b # <<>> /\ a[1] = b[1]

ct_eq(a, b) == Len(a) = Len(b) /\ \A i \in 1..Len(a) : a[i] = b[i]

verify_github_signature(secret, payload, signature) ==
    LET signature_hex == strip_prefix(signature, Sha256Prefix)
    IN IF IsNone(signature_hex) THEN FALSE
       ELSE LET signature_bytes == hex_decode(Unwrap(signature_hex))
            IN IF IsNone(signature_bytes) THEN FALSE
               ELSE ct_eq(HmacSha256(secret, payload), Unwrap(signature_bytes))

\* the header a sender holding `secret` computes for `body`
SignatureFor(secret, body) == Sha256Prefix \o hex_encode(HmacSha256(secret, body))

(***************************************************************************)
(* Payloads.  serde_json::from_slice is a table from the raw bodies to the *)
(* JSON values they denote; "garbage" is no JSON, and "ping " denotes the  *)
(* same value as "ping".                                                   *)
(***************************************************************************)
RepoJson ==
    JObj([id |-> JInt(7), name |-> JStr("bow"), full_name |-> JStr("rezi/bow"),
          owner |-> JObj([login |-> JStr("rezi")]), description |-> JNull,
          html_url |-> JStr("https://h/rezi/bow"), private |-> JBool(FALSE)])

CommitJson(sha) ==
    JObj([id |-> JStr(sha), message |-> JStr("msg"),
          author |-> JObj([name |-> JStr("ann"), email |-> JStr("ann@x")]),
          committer |-> JObj([name |-> JStr("bob"), email |-> JStr("bob@x")]),
          timestamp |-> JStr("2024-01-01T00:00:00Z"), url |-> JStr("https://h/c")])

PingJson ==
    JObj([zen |-> JStr("keep it simple"), sender |-> JObj([login |-> JStr("octocat")])])

Push2Json ==
    JObj([repository |-> RepoJson,
          pusher |-> JObj([name |-> JStr("ann"), email |-> JStr("ann@x")]),
          commits |-> JArr(<<CommitJson("sha-a"), CommitJson("sha-b")>>)])

CustomJson ==
    JObj([event_type |-> JStr("build"), actor |-> JStr("ci-bot"), action |-> JStr("finished")])

CustomPushJson ==
    JObj([type |-> JStr("push"), repository |-> RepoJson,
          commits |-> JArr(<<CommitJson("sha-a")>>)])

\* a pull_request payload; the pull request is closed and not merged
PullRequestJson(base) ==
    JObj([id |-> JInt(70), number |-> JInt(3), title |-> JStr("fix"), state |-> JStr("closed"),
          user |-> JObj([login |-> JStr("ann")]), base |-> base,
          head |-> JObj([ref |-> JStr("topic")]), html_url |-> JStr("https://h/pr/3"),
          created_at |-> JStr("2024-01-01T00:00:00Z"),
          closed_at |-> JStr("2024-02-02T00:00:00Z"), merged_at |-> JNull])

PrJson ==
    JObj([action |-> JStr("closed"), repository |-> RepoJson,
          sender |-> JObj([login |-> JStr("ann")]),
          pull_request |-> PullRequestJson(JObj([ref |-> JStr("main")]))])

\* pull_request.base has no ref
PrNoBaseJson ==
    JObj([action |-> JStr("closed"), repository |-> RepoJson,
          sender |-> JObj([login |-> JStr("ann")]),
          pull_request |-> PullRequestJson(JObj([sha |-> JStr("sha-a")]))])

IssueFields(created_at) ==
    [id |-> JInt(90), number |-> JInt(4), title |-> JStr("bug"), state |-> JStr("open"),
     labels |-> JArr(<<JObj([name |-> JStr("p1")]), JObj([color |-> JStr("red")])>>),
     html_url |-> JStr("https://h/i/4"), created_at |-> JStr(created_at),
     closed_at |-> JNull]

IssueJson ==
    JObj([action |-> JStr("opened"), repository |-> RepoJson,
          issue |-> JObj(IssueFields("2024-01-01T00:00:00Z")
                         @@ [user |-> JObj([login |-> JStr("bob")])])])

\* issue has no user
IssueNoUserJson ==
    JObj([action |-> JStr("opened"), repository |-> RepoJson,
          issue |-> JObj(IssueFields("2024-01-01T00:00:00Z"))])

\* issue.created_at is no timestamp
IssueBadTimeJson ==
    JObj([action |-> JStr("opened"), repository |-> RepoJson,
          issue |-> JObj(IssueFields("yesterday")
                         @@ [user |-> JObj([login |-> JStr("bob")])])])

\* a push whose second commit has no message
PushBadCommitJson ==
    JObj([repository |-> RepoJson,
          pusher |-> JObj([name |-> JStr("ann"), email |-> JStr("ann@x")]),
          commits |-> JArr(<<CommitJson("sha-a"),
                             JObj([id |-> JStr("sha-b"),
                                   author |-> JObj([name |-> JStr("ann"),
                                                    email |-> JStr("ann@x")]),
                                   committer |-> JObj([name |-> JStr("bob"),
                                                       email |-> JStr("bob@x")]),
                                   timestamp |-> JStr("2024-01-01T00:00:00Z"),
                                   url |-> JStr("https://h/c")])>>)])

\* a push whose second commit has a timestamp that is no ISO-8601 text
PushBadTimeJson ==
    JObj([repository |-> RepoJson,
          pusher |-> JObj([name |-> JStr("ann"), email |-> JStr("ann@x")]),
          commits |-> JArr(<<CommitJson("sha-a"),
                             JObj([CommitJson("sha-b").o
                                      EXCEPT !.timestamp = JStr("yesterday")])>>)])

\* pull_request.created_at is no timestamp
PrBadCreatedJson ==
    JObj([PrJson.o EXCEPT !.pull_request =
             JObj([PrJson.o.pull_request.o EXCEPT !.created_at = JStr("yesterday")])])

\* pull_request.closed_at and pull_request.merged_at are no timestamps
PrBadClosedJson ==
    JObj([PrJson.o EXCEPT !.pull_request =
             JObj([PrJson.o.pull_request.o EXCEPT !.closed_at = JStr("yesterday"),
                                                  !.merged_at = JStr("02/02/2024")])])

\* issue.closed_at is no timestamp
IssueBadClosedJson ==
    JObj([IssueJson.o EXCEPT !.issue =
             JObj([IssueJson.o.issue.o EXCEPT !.closed_at = JStr("yesterday")])])

\* the pull request of PrJson (same id) reopened: retitled, by another author, on
\* other branches, with another created_at, and closed_at back to null
PrReopenedJson ==
    JObj([PrJson.o EXCEPT !.action = JStr("reopened"), !.pull_request =
             JObj([PrJson.o.pull_request.o EXCEPT
                      !.title = JStr("fix v2"), !.state = JStr("open"),
                      !.user = JObj([login |-> JStr("bob")]),
                      !.base = JObj([ref |-> JStr("develop")]),
                      !.head = JObj([ref |-> JStr("topic2")]),
                      !.html_url = JStr("https://h/pull/3"),
                      !.created_at = JStr("2024-02-02T00:00:00Z"),
                      !.closed_at = JNull])])

\* the same pull request merged
PrMergedJson ==
    JObj([PrJson.o EXCEPT !.pull_request =
             JObj([PrJson.o.pull_request.o EXCEPT
                      !.merged_at = JStr("2024-02-02T00:00:00Z")])])

\* the issue of IssueJson (same id) closed: retitled, by another author, with other
\* labels and another created_at
IssueClosedJson ==
    JObj([IssueJson.o EXCEPT !.action = JStr("closed"), !.issue =
             JObj([IssueJson.o.issue.o EXCEPT
                      !.title = JStr("bug, fixed"), !.state = JStr("closed"),
                      !.user = JObj([login |-> JStr("cy")]),
                      !.labels = JArr(<<JObj([name |-> JStr("p2")])>>),
                      !.html_url = JStr("https://h/issues/4"),
                      !.created_at = JStr("2024-02-02T00:00:00Z"),
                      !.closed_at = JStr("2024-02-02T00:00:00Z")])])

\* payloads that name their event type in object_kind, type, event, event_type
GitlabPushJson == JObj([object_kind |-> JStr("push"), type |-> JStr("hook")])

TypedJson ==
    JObj([type |-> JStr("login"), event |-> JStr("signup"), event_type |-> JStr("build")])

\* type is no string
EventOnlyJson ==
    JObj([type |-> JInt(5), event |-> JStr("signup"), event_type |-> JStr("build")])

\* a push whose sender has an id and no login, pushed by someone else
PushSenderIdJson ==
    JObj([repository |-> RepoJson, sender |-> JObj([id |-> JInt(42)]),
          pusher |-> JObj([name |-> JStr("pat"), email |-> JStr("pat@x")]),
          commits |-> JArr(<<CommitJson("sha-a")>>)])

\* the repository of RepoJson (same id) after it was moved and made private
RepoRenamedJson ==
    JObj([RepoJson.o EXCEPT !.full_name = JStr("acme/bow"),
                            !.owner = JObj([login |-> JStr("acme")]),
                            !.description = JStr("moved"),
                            !.html_url = JStr("https://h/acme/bow"),
                            !.private = JBool(TRUE)])

\* another repository
RepoOtherJson ==
    JObj([RepoJson.o EXCEPT !.id = JInt(8), !.name = JStr("arrow"),
                            !.full_name = JStr("rezi/arrow"),
                            !.html_url = JStr("https://h/rezi/arrow")])

\* commit sha-a seen again, reworded and by other people
CommitRewordedJson ==
    JObj([id |-> JStr("sha-a"), message |-> JStr("reworded"),
          author |-> JObj([name |-> JStr("cy"), email |-> JStr("cy@x")]),
          committer |-> JObj([name |-> JStr("dee"), email |-> JStr("dee@x")]),
          timestamp |-> JStr("2024-02-02T00:00:00Z"), url |-> JStr("https://h/c2")])

\* a push to the moved repository that lists sha-a again
PushRenamedJson ==
    JObj([repository |-> RepoRenamedJson,
          pusher |-> JObj([name |-> JStr("cy"), email |-> JStr("cy@x")]),
          commits |-> JArr(<<CommitRewordedJson>>)])

\* a push of sha-a to the other repository
PushOtherJson ==
    JObj([repository |-> RepoOtherJson,
          pusher |-> JObj([name |-> JStr("ann"), email |-> JStr("ann@x")]),
          commits |-> JArr(<<CommitJson("sha-a")>>)])

\* serde_json::from_slice: Err is None
from_slice(body) ==
    CASE body = "ping" -> Some(PingJson)
      [] body = "ping " -> Some(PingJson)
      [] body = "push2" -> Some(Push2Json)
      [] body = "custom" -> Some(CustomJson)
      [] body = "custom-push" -> Some(CustomPushJson)
      [] body = "pr" -> Some(PrJson)
      [] body = "issue" -> Some(IssueJson)
      [] body = "pr-nobase" -> Some(PrNoBaseJson)
      [] body = "issue-nouser" -> Some(IssueNoUserJson)
      [] body = "issue-badtime" -> Some(IssueBadTimeJson)
      [] body = "push-badcommit" -> Some(PushBadCommitJson)
      [] body = "push-badtime" -> Some(PushBadTimeJson)
      [] body = "pr-badcreated" -> Some(PrBadCreatedJson)
      [] body = "pr-badclosed" -> Some(PrBadClosedJson)
      [] body = "issue-badclosed" -> Some(IssueBadClosedJson)
      [] body = "push-renamed" -> Some(PushRenamedJson)
      [] body = "push-other" -> Some(PushOtherJson)
      [] body = "pr-reopened" -> Some(PrReopenedJson)
      [] body = "pr-merged" -> Some(PrMergedJson)
      [] body = "issue-closed" -> Some(IssueClosedJson)
      [] body = "gitlab-push" -> Some(GitlabPushJson)
      [] body = "typed" -> Some(TypedJson)
      [] body = "event-only" -> Some(EventOnlyJson)
      [] body = "push-senderid" -> Some(PushSenderIdJson)
      [] OTHER -> None

(***************************************************************************)
(* Requests: path, {source} path segment, headers (a function from the     *)
(* header names that are present to their values) and the raw body.        *)
(***************************************************************************)
\* the headers of req whose value holds a byte that is not visible ASCII:
\* HeaderValue::to_str fails on them
OpaqueHeaders(req) == IF "opaque" \in DOMAIN req THEN req.opaque ELSE {}

\* HeaderMap::get(name).and_then(|h| h.to_str().ok())
Header(req, name) ==
    IF name \in DOMAIN req.headers /\ name \notin OpaqueHeaders(req)
    THEN Some(req.headers[name]) ELSE None

\* Uuid::parse_str on the header values of the model
UuidStrings == {"d1", "d2"}
parse_str(s) == IF s \in UuidStrings THEN Some([hdr |-> s]) ELSE None

(***************************************************************************)
(* Source adapter (handlers/webhook.rs).                                   *)
(***************************************************************************)
\* Option::and_then(parse) on an optional header
AndThenParse(o) == IF IsSome(o) THEN parse_str(Unwrap(o)) ELSE None

extract_delivery_id(req, source) ==
    CASE source = "github" -> AndThenParse(Header(req, "X-GitHub-Delivery"))
      [] source = "gitlab" -> AndThenParse(Header(req, "X-Gitlab-Event-UUID"))
      [] OTHER -> None

\* extract_event_type whose default arm is the auth0 arm
extract_event_type_DefaultAsAuth0(source, payload, req) ==
    CASE source = "github" -> UnwrapOr(Header(req, "X-GitHub-Event"), "unknown")
      [] source = "gitlab" ->
            UnwrapOr(Header(req, "X-Gitlab-Event"),
                     UnwrapOr(as_str(Idx(payload, "object_kind")), "unknown"))
      [] OTHER ->
            UnwrapOr(OrElse(as_str(Idx(payload, "type")), as_str(Idx(payload, "event"))),
                     "unknown")

extract_event_type(source, payload, req) ==
    CASE source = "github" -> UnwrapOr(Header(req, "X-GitHub-Event"), "unknown")
      [] source = "gitlab" ->
            UnwrapOr(Header(req, "X-Gitlab-Event"),
                     UnwrapOr(as_str(Idx(payload, "object_kind")), "unknown"))
      [] source = "auth0" ->
            UnwrapOr(OrElse(as_str(Idx(payload, "type")), as_str(Idx(payload, "event"))),
                     "unknown")
      [] OTHER ->
            UnwrapOr(OrElse(OrElse(as_str(Idx(payload, "type")),
                                   as_str(Idx(payload, "event"))),
                            as_str(Idx(payload, "event_type"))),
                     "webhook")

extract_action(source, payload) ==
    OrElse(as_str(Idx(payload, "action")), as_str(Idx(payload, "event_action")))

extract_signature(source, req) ==
    CASE source = "github" -> Header(req, "X-Hub-Signature-256")
      [] source = "gitlab" -> Header(req, "X-Gitlab-Token")
      [] OTHER -> None

\* i64::to_string, kept symbolic
IntToString(i) == [dec |-> i]
MapToString(o) == IF IsSome(o) THEN Some(IntToString(Unwrap(o))) ELSE None

\* handlers/webhook.rs extract_actor_info: <<name, email, id>>
extract_actor_info(source, payload) ==
    CASE source = "github" ->
            <<OrElse(as_str(Idx2(payload, "sender", "login")),
                     as_str(Idx2(payload, "pusher", "name"))),
              OrElse(as_str(Idx2(payload, "sender", "email")),
                     as_str(Idx2(payload, "pusher", "email"))),
              OrElse(as_str(Idx2(payload, "sender", "login")),
                     MapToString(as_i64(Idx2(payload, "sender", "id"))))>>
      [] source = "gitlab" ->
            <<OrElse(as_str(Idx(payload, "user_username")),
                     as_str(Idx2(payload, "user", "username"))),
              OrElse(as_str(Idx(payload, "user_email")),
                     as_str(Idx2(payload, "user", "email"))),
              OrElse(MapToString(as_i64(Idx(payload, "user_id"))),
                     MapToString(as_i64(Idx2(payload, "user", "id"))))>>
      [] source = "auth0" ->
            <<OrElse(as_str(Idx2(payload, "user", "name")),
                     as_str(Idx2(payload, "user", "username"))),
              as_str(Idx2(payload, "user", "email")),
              OrElse(as_str(Idx2(payload, "user", "user_id")),
                     as_str(Idx2(payload, "user", "id")))>>
      [] OTHER ->
            <<OrElse(OrElse(as_str(Idx(payload, "actor")), as_str(Idx(payload, "user"))),
                     as_str(Idx(payload, "username"))),
              as_str(Idx(payload, "email")),
              OrElse(as_str(Idx(payload, "actor_id")), as_str(Idx(payload, "user_id")))>>

\* services/github.rs extract_actor_info: <<name, email, id>>
FirstCommit(payload) ==
    LET c == as_array(Idx(payload, "commits"))
    IN IF IsSome(c) /\ Len(Unwrap(c)) >= 1 THEN Unwrap(c)[1] ELSE JNull

\* services/github.rs extract_actor_info with the preference order of the
\* generic adapter
github_extract_actor_info_AsGeneric(payload) == extract_actor_info("github", payload)

github_extract_actor_info(payload) ==
    <<OrElse(OrElse(as_str(Idx2(payload, "sender", "login")),
                    as_str(Idx2(payload, "pusher", "name"))),
             as_str(Idx2(FirstCommit(payload), "author", "name"))),
      OrElse(OrElse(as_str(Idx2(payload, "sender", "email")),
                    as_str(Idx2(payload, "pusher", "email"))),
             as_str(Idx2(FirstCommit(payload), "author", "email"))),
      OrElse(OrElse(as_str(Idx2(payload, "sender", "login")),
                    MapToString(as_i64(Idx2(payload, "sender", "id")))),
             as_str(Idx2(payload, "pusher", "name")))>>

convert_github_webhook_to_event(event_type, event_action, payload, delivery_id, signature, repository_id) ==
    LET actor == github_extract_actor_info(payload)
    IN [source |-> "github", event_type |-> event_type, action |-> event_action,
        actor_name |-> actor[1], actor_email |-> actor[2], actor_id |-> actor[3],
        raw_event |-> payload, delivery_id |-> delivery_id, signature |-> signature,
        repository_id |-> repository_id]

(***************************************************************************)
(* Result<T, ProcessingError>.                                             *)
(***************************************************************************)
Ok(v) == [ok |-> TRUE, v |-> v]
Err(e) == [ok |-> FALSE, e |-> e]

\* str::parse::<DateTime<Utc>> on the timestamp strings of the model
ValidTimestamps == {"2024-01-01T00:00:00Z", "2024-02-02T00:00:00Z", "2024-03-03T00:00:00Z"}
parse_datetime(s) == IF s \in ValidTimestamps THEN Some([utc |-> s]) ELSE None
\* .as_str().and_then(|s| s.parse::<DateTime<Utc>>().ok())
AndThenParseDatetime_Lenient(o) == IF IsSome(o) THEN Some([utc |-> Unwrap(o)]) ELSE None

AndThenParseDatetime(o) == IF IsSome(o) THEN parse_datetime(Unwrap(o)) ELSE None

(***************************************************************************)
(* The store.  A table is the sequence of its rows in insertion order; the *)
(* surrogate id of a row is its position.                                  *)
(***************************************************************************)
VARIABLES
    events,            \* table events (models/event.rs)
    webhook_events,    \* table webhook_events (models/webhook_event.rs)
    repositories,      \* table repositories
    commits,           \* table commits
    pull_requests,     \* table pull_requests
    issues,            \* table issues
    tasks,             \* the projection tasks spawned with tokio::spawn
    last,              \* the request handled last and the response it got
    clock              \* the wall clock NOW() reads

store == <<events, webhook_events, repositories, commits, pull_requests, issues>>
domain == <<repositories, commits, pull_requests, issues>>
vars == <<events, webhook_events, repositories, commits, pull_requests, issues, tasks, last, clock>>

Rows(table) == {table[i] : i \in DOMAIN table}

\* the row INSERT INTO events ... RETURNING * hands back: id from the sequence,
\* received_at, processed and processed_at from the column defaults
EventRow(evs, data, now) ==
    [id |-> Len(evs) + 1, source |-> data.source, event_type |-> data.event_type,
     action |-> data.action, actor_name |-> data.actor_name,
     actor_email |-> data.actor_email, actor_id |-> data.actor_id,
     raw_event |-> data.raw_event, delivery_id |-> data.delivery_id,
     signature |-> data.signature, received_at |-> now, processed |-> FALSE,
     processed_at |-> None, repository_id |-> data.repository_id]

\* Event::create: the table after the INSERT
Event_create_SwappedBinds(evs, data, now) ==
    Append(evs, [EventRow(evs, data, now) EXCEPT !.source = data.event_type,
                                                  !.event_type = data.source])

Event_create_UpsertDelivery(evs, data, now) ==
    IF \E i \in DOMAIN evs : evs[i].delivery_id = data.delivery_id
    THEN [i \in DOMAIN evs |->
             IF evs[i].delivery_id = data.delivery_id
             THEN [EventRow(evs, data, now) EXCEPT !.id = evs[i].id]
             ELSE evs[i]]
    ELSE Append(evs, EventRow(evs, data, now))

Event_create_NotCommitted(evs, data, now) == evs

Event_create(evs, data, now) == Append(evs, EventRow(evs, data, now))

\* Event::mark_processed: UPDATE events SET processed = true, processed_at = NOW() WHERE id = $1
Event_mark_processed_NoWhere(evs, id, now) ==
    [i \in DOMAIN evs |-> [evs[i] EXCEPT !.processed = TRUE, !.processed_at = Some(now)]]

Event_mark_processed_ByDelivery(evs, id, now) ==
    [i \in DOMAIN evs |->
        IF \E j \in DOMAIN evs : evs[j].id = id /\ evs[j].delivery_id = evs[i].delivery_id
        THEN [evs[i] EXCEPT !.processed = TRUE, !.processed_at = Some(now)]
        ELSE evs[i]]

Event_mark_processed(evs, id, now) ==
    [i \in DOMAIN evs |->
        IF evs[i].id = id
        THEN [evs[i] EXCEPT !.processed = TRUE, !.processed_at = Some(now)]
        ELSE evs[i]]

\* WebhookEvent::create
\* WebhookEvent::create writing the row as processed
WebhookEvent_create_Processed(whs, data, now) ==
    Append(whs, [id |-> Len(whs) + 1, repository_id |-> data.repository_id,
                 event_type |-> data.event_type, event_action |-> data.event_action,
                 delivery_id |-> data.delivery_id, payload |-> data.payload,
                 signature |-> data.signature, received_at |-> now, processed |-> TRUE,
                 processed_at |-> Some(now)])

WebhookEvent_create(whs, data, now) ==
    Append(whs, [id |-> Len(whs) + 1, repository_id |-> data.repository_id,
                 event_type |-> data.event_type, event_action |-> data.event_action,
                 delivery_id |-> data.delivery_id, payload |-> data.payload,
                 signature |-> data.signature, received_at |-> now, processed |-> FALSE,
                 processed_at |-> None])

\* Repository::find_by_full_name(...).fetch_optional: full_name is no key, so any
\* matching row may come back; the set of possible results
Repository_find_by_full_name(repos, full_name) ==
    IF \E r \in Rows(repos) : r.full_name = full_name
    THEN {Some(r) : r \in {q \in Rows(repos) : q.full_name = full_name}}
    ELSE {None}

\* the position of the row a unique key selects, 0 when there is none
Find(table, Match(_)) ==
    IF \E i \in DOMAIN table : Match(table[i])
    THEN CHOOSE i \in DOMAIN table : Match(table[i])
    ELSE 0

\* Repository::create: INSERT ... ON CONFLICT (github_id) DO UPDATE ... RETURNING *
Repository_create_NoConflict(repos, data, now) ==
    Append(repos, [id |-> Len(repos) + 1, github_id |-> data.github_id,
                   name |-> data.name, full_name |-> data.full_name,
                   owner |-> data.owner, description |-> data.description,
                   url |-> data.url, is_private |-> data.is_private,
                   created_at |-> now, updated_at |-> now])

Repository_create_DoNothing(repos, data, now) ==
    LET Same(r) == r.github_id = data.github_id
        at == Find(repos, Same)
    IN IF at = 0
       THEN Append(repos, [id |-> Len(repos) + 1, github_id |-> data.github_id,
                           name |-> data.name, full_name |-> data.full_name,
                           owner |-> data.owner, description |-> data.description,
                           url |-> data.url, is_private |-> data.is_private,
                           created_at |-> now, updated_at |-> now])
       ELSE repos

Repository_create(repos, data, now) ==
    LET Same(r) == r.github_id = data.github_id
        at == Find(repos, Same)
    IN IF at = 0
       THEN Append(repos, [id |-> Len(repos) + 1, github_id |-> data.github_id,
                           name |-> data.name, full_name |-> data.full_name,
                           owner |-> data.owner, description |-> data.description,
                           url |-> data.url, is_private |-> data.is_private,
                           created_at |-> now, updated_at |-> now])
       ELSE [repos EXCEPT ![at] = [@ EXCEPT !.name = data.name, !.full_name = data.full_name,
                                            !.owner = data.owner,
                                            !.description = data.description,
                                            !.url = data.url, !.is_private = data.is_private,
                                            !.updated_at = now]]

\* the row RETURNING * hands back after an upsert on github_id
ReturnedByGithubId(table, github_id) ==
    LET Same(r) == r.github_id = github_id IN table[Find(table, Same)]

\* Commit::create: INSERT ... ON CONFLICT (sha, repository_id) DO UPDATE ...
Commit_create_NoConflict(cs, data, now) ==
    Append(cs, [id |-> Len(cs) + 1, repository_id |-> data.repository_id,
                webhook_event_id |-> data.webhook_event_id, sha |-> data.sha,
                message |-> data.message, author_name |-> data.author_name,
                author_email |-> data.author_email,
                committer_name |-> data.committer_name,
                committer_email |-> data.committer_email,
                committed_at |-> data.committed_at, url |-> data.url,
                created_at |-> now])

\* Commit::create with webhook_event_id in the SET list of its ON CONFLICT arm
Commit_create_Reattribute(cs, data, now) ==
    LET Same(r) == r.sha = data.sha /\ r.repository_id = data.repository_id
        at == Find(cs, Same)
    IN IF at = 0
       THEN Commit_create_NoConflict(cs, data, now)
       ELSE [cs EXCEPT ![at] = [@ EXCEPT !.webhook_event_id = data.webhook_event_id,
                                         !.message = data.message,
                                         !.author_name = data.author_name,
                                         !.author_email = data.author_email,
                                         !.committer_name = data.committer_name,
                                         !.committer_email = data.committer_email,
                                         !.committed_at = data.committed_at,
                                         !.url = data.url]]

Commit_create(cs, data, now) ==
    LET Same(r) == r.sha = data.sha /\ r.repository_id = data.repository_id
        at == Find(cs, Same)
    IN IF at = 0
       THEN Append(cs, [id |-> Len(cs) + 1, repository_id |-> data.repository_id,
                        webhook_event_id |-> data.webhook_event_id, sha |-> data.sha,
                        message |-> data.message, author_name |-> data.author_name,
                        author_email |-> data.author_email,
                        committer_name |-> data.committer_name,
                        committer_email |-> data.committer_email,
                        committed_at |-> data.committed_at, url |-> data.url,
                        created_at |-> now])
       ELSE [cs EXCEPT ![at] = [@ EXCEPT !.message = data.message,
                                         !.author_name = data.author_name,
                                         !.author_email = data.author_email,
                                         !.committer_name = data.committer_name,
                                         !.committer_email = data.committer_email,
                                         !.committed_at = data.committed_at,
                                         !.url = data.url]]

\* PullRequest::create: INSERT ... ON CONFLICT (github_id) DO UPDATE ...
\* PullRequest::create with closed_at = COALESCE(EXCLUDED.closed_at, closed_at)
PullRequest_create_CoalesceClosed(prs, data, now) ==
    LET Same(r) == r.github_id = data.github_id
        at == Find(prs, Same)
    IN IF at = 0
       THEN Append(prs, [id |-> Len(prs) + 1, repository_id |-> data.repository_id,
                         webhook_event_id |-> data.webhook_event_id,
                         github_id |-> data.github_id, number |-> data.number,
                         title |-> data.title, state |-> data.state, author |-> data.author,
                         base_branch |-> data.base_branch, head_branch |-> data.head_branch,
                         url |-> data.url, opened_at |-> data.opened_at,
                         closed_at |-> data.closed_at, merged_at |-> data.merged_at,
                         created_at |-> now, updated_at |-> now])
       ELSE [prs EXCEPT ![at] = [@ EXCEPT !.title = data.title, !.state = data.state,
                                          !.author = data.author,
                                          !.base_branch = data.base_branch,
                                          !.head_branch = data.head_branch,
                                          !.url = data.url,
                                          !.closed_at = IF IsSome(data.closed_at)
                                                        THEN data.closed_at ELSE @,
                                          !.merged_at = data.merged_at,
                                          !.updated_at = now]]

\* PullRequest::create whose ON CONFLICT arm has WHERE pull_requests.webhook_event_id
\* < EXCLUDED.webhook_event_id: the row of a later Event is not overwritten
PullRequest_create_LatestEventWins(prs, data, now) ==
    LET Same(r) == r.github_id = data.github_id
        at == Find(prs, Same)
    IN IF at = 0
       THEN Append(prs, [id |-> Len(prs) + 1, repository_id |-> data.repository_id,
                         webhook_event_id |-> data.webhook_event_id,
                         github_id |-> data.github_id, number |-> data.number,
                         title |-> data.title, state |-> data.state, author |-> data.author,
                         base_branch |-> data.base_branch, head_branch |-> data.head_branch,
                         url |-> data.url, opened_at |-> data.opened_at,
                         closed_at |-> data.closed_at, merged_at |-> data.merged_at,
                         created_at |-> now, updated_at |-> now])
       ELSE IF prs[at].webhook_event_id >= data.webhook_event_id THEN prs
       ELSE [prs EXCEPT ![at] = [@ EXCEPT !.title = data.title, !.state = data.state,
                                          !.author = data.author,
                                          !.base_branch = data.base_branch,
                                          !.head_branch = data.head_branch,
                                          !.url = data.url, !.closed_at = data.closed_at,
                                          !.merged_at = data.merged_at,
                                          !.updated_at = now]]

PullRequest_create(prs, data, now) ==
    LET Same(r) == r.github_id = data.github_id
        at == Find(prs, Same)
    IN IF at = 0
       THEN Append(prs, [id |-> Len(prs) + 1, repository_id |-> data.repository_id,
                         webhook_event_id |-> data.webhook_event_id,
                         github_id |-> data.github_id, number |-> data.number,
                         title |-> data.title, state |-> data.state, author |-> data.author,
                         base_branch |-> data.base_branch, head_branch |-> data.head_branch,
                         url |-> data.url, opened_at |-> data.opened_at,
                         closed_at |-> data.closed_at, merged_at |-> data.merged_at,
                         created_at |-> now, updated_at |-> now])
       ELSE [prs EXCEPT ![at] = [@ EXCEPT !.title = data.title, !.state = data.state,
                                          !.author = data.author,
                                          !.base_branch = data.base_branch,
                                          !.head_branch = data.head_branch,
                                          !.url = data.url, !.closed_at = data.closed_at,
                                          !.merged_at = data.merged_at,
                                          !.updated_at = now]]

\* Issue::create: INSERT ... ON CONFLICT (github_id) DO UPDATE ...
Issue_create(is, data, now) ==
    LET Same(r) == r.github_id = data.github_id
        at == Find(is, Same)
    IN IF at = 0
       THEN Append(is, [id |-> Len(is) + 1, repository_id |-> data.repository_id,
                        webhook_event_id |-> data.webhook_event_id,
                        github_id |-> data.github_id, number |-> data.number,
                        title |-> data.title, state |-> data.state, author |-> data.author,
                        labels |-> data.labels, url |-> data.url,
                        opened_at |-> data.opened_at, closed_at |-> data.closed_at,
                        created_at |-> now, updated_at |-> now])
       ELSE [is EXCEPT ![at] = [@ EXCEPT !.title = data.title, !.state = data.state,
                                         !.author = data.author, !.labels = data.labels,
                                         !.url = data.url, !.closed_at = data.closed_at,
                                         !.updated_at = now]]

(***************************************************************************)
(* Domain projector (services/github.rs).                                  *)
(***************************************************************************)
\* LET x == v IN F(x), with v evaluated once
Bind(v, F(_)) == CHOOSE r \in {F(x) : x \in {v}} : TRUE

AllSome(opts) == \A i \in DOMAIN opts : IsSome(opts[i])

extract_repository(payload) ==
    LET repo == Idx(payload, "repository")
        github_id == as_i64(Idx(repo, "id"))
        name == as_str(Idx(repo, "name"))
        full_name == as_str(Idx(repo, "full_name"))
        owner == as_str(Idx2(repo, "owner", "login"))
        url == as_str(Idx(repo, "html_url"))
    IN IF ~AllSome(<<github_id, name, full_name, owner, url>>) THEN Err("InvalidPayload")
       ELSE Ok([github_id |-> Unwrap(github_id), name |-> Unwrap(name),
                full_name |-> Unwrap(full_name), owner |-> Unwrap(owner),
                description |-> as_str(Idx(repo, "description")), url |-> Unwrap(url),
                is_private |-> UnwrapOr(as_bool(Idx(repo, "private")), FALSE)])

\* the body of the loop of process_push_event up to CreateCommit
extract_commit(commit_data, repository_id, event_id) ==
    LET sha == as_str(Idx(commit_data, "id"))
        message == as_str(Idx(commit_data, "message"))
        author_name == as_str(Idx2(commit_data, "author", "name"))
        author_email == as_str(Idx2(commit_data, "author", "email"))
        committer_name == as_str(Idx2(commit_data, "committer", "name"))
        committer_email == as_str(Idx2(commit_data, "committer", "email"))
        timestamp_str == as_str(Idx(commit_data, "timestamp"))
        committed_at == AndThenParseDatetime(timestamp_str)
        url == as_str(Idx(commit_data, "url"))
    IN IF ~AllSome(<<sha, message, author_name, author_email, committer_name,
                     committer_email, timestamp_str, committed_at, url>>)
       THEN Err("InvalidPayload")
       ELSE Ok([repository_id |-> repository_id, webhook_event_id |-> event_id,
                sha |-> Unwrap(sha), message |-> Unwrap(message),
                author_name |-> Unwrap(author_name), author_email |-> Unwrap(author_email),
                committer_name |-> Unwrap(committer_name),
                committer_email |-> Unwrap(committer_email),
                committed_at |-> Unwrap(committed_at), url |-> Unwrap(url)])

\* process_pull_request_event from pr_data up to CreatePullRequest
extract_pull_request_BaseOptional(pr_data, repository_id, event_id) ==
    LET github_id == as_i64(Idx(pr_data, "id"))
        number == as_i64(Idx(pr_data, "number"))
        title == as_str(Idx(pr_data, "title"))
        state == as_str(Idx(pr_data, "state"))
        author == as_str(Idx2(pr_data, "user", "login"))
        base_branch == as_str(Idx2(pr_data, "base", "ref"))
        head_branch == as_str(Idx2(pr_data, "head", "ref"))
        url == as_str(Idx(pr_data, "html_url"))
        opened_at_str == as_str(Idx(pr_data, "created_at"))
        opened_at == AndThenParseDatetime(opened_at_str)
    IN IF ~AllSome(<<github_id, number, title, state, author, head_branch,
                     url, opened_at_str, opened_at>>)
       THEN Err("InvalidPayload")
       ELSE Ok([repository_id |-> repository_id, webhook_event_id |-> event_id,
                github_id |-> Unwrap(github_id), number |-> Unwrap(number),
                title |-> Unwrap(title), state |-> Unwrap(state), author |-> Unwrap(author),
                base_branch |-> UnwrapOr(base_branch, ""), head_branch |-> Unwrap(head_branch),
                url |-> Unwrap(url), opened_at |-> Unwrap(opened_at),
                closed_at |-> AndThenParseDatetime(as_str(Idx(pr_data, "closed_at"))),
                merged_at |-> AndThenParseDatetime(as_str(Idx(pr_data, "merged_at")))])

extract_pull_request(pr_data, repository_id, event_id) ==
    LET github_id == as_i64(Idx(pr_data, "id"))
        number == as_i64(Idx(pr_data, "number"))
        title == as_str(Idx(pr_data, "title"))
        state == as_str(Idx(pr_data, "state"))
        author == as_str(Idx2(pr_data, "user", "login"))
        base_branch == as_str(Idx2(pr_data, "base", "ref"))
        head_branch == as_str(Idx2(pr_data, "head", "ref"))
        url == as_str(Idx(pr_data, "html_url"))
        opened_at_str == as_str(Idx(pr_data, "created_at"))
        opened_at == AndThenParseDatetime(opened_at_str)
    IN IF ~AllSome(<<github_id, number, title, state, author, base_branch, head_branch,
                     url, opened_at_str, opened_at>>)
       THEN Err("InvalidPayload")
       ELSE Ok([repository_id |-> repository_id, webhook_event_id |-> event_id,
                github_id |-> Unwrap(github_id), number |-> Unwrap(number),
                title |-> Unwrap(title), state |-> Unwrap(state), author |-> Unwrap(author),
                base_branch |-> Unwrap(base_branch), head_branch |-> Unwrap(head_branch),
                url |-> Unwrap(url), opened_at |-> Unwrap(opened_at),
                closed_at |-> AndThenParseDatetime(as_str(Idx(pr_data, "closed_at"))),
                merged_at |-> AndThenParseDatetime(as_str(Idx(pr_data, "merged_at")))])

\* filter_map(|l| l["name"].as_str()) over the labels array
RECURSIVE LabelNames(_)
LabelNames(arr) ==
    IF arr = <<>> THEN <<>>
    ELSE LET n == as_str(Idx(Head(arr), "name"))
         IN (IF IsSome(n) THEN <<Unwrap(n)>> ELSE <<>>) \o LabelNames(Tail(arr))

\* process_issues_event from issue_data up to CreateIssue
extract_issue(issue_data, repository_id, event_id) ==
    LET github_id == as_i64(Idx(issue_data, "id"))
        number == as_i64(Idx(issue_data, "number"))
        title == as_str(Idx(issue_data, "title"))
        state == as_str(Idx(issue_data, "state"))
        author == as_str(Idx2(issue_data, "user", "login"))
        labels == as_array(Idx(issue_data, "labels"))
        url == as_str(Idx(issue_data, "html_url"))
        opened_at_str == as_str(Idx(issue_data, "created_at"))
        opened_at == AndThenParseDatetime(opened_at_str)
    IN IF ~AllSome(<<github_id, number, title, state, author, url, opened_at_str, opened_at>>)
       THEN Err("InvalidPayload")
       ELSE Ok([repository_id |-> repository_id, webhook_event_id |-> event_id,
                github_id |-> Unwrap(github_id), number |-> Unwrap(number),
                title |-> Unwrap(title), state |-> Unwrap(state), author |-> Unwrap(author),
                labels |-> IF IsSome(labels) THEN LabelNames(Unwrap(labels)) ELSE <<>>,
                url |-> Unwrap(url), opened_at |-> Unwrap(opened_at),
                closed_at |-> AndThenParseDatetime(as_str(Idx(issue_data, "closed_at")))])

(***************************************************************************)
(* A projection task: the future handed to tokio::spawn.  It owns a clone  *)
(* of the Event row and runs one database statement per step.              *)
(*   pc: start | commits | pull_request | issue | mark | done | failed |   *)
(*       lost (the process went down while the task was running)           *)
(***************************************************************************)
NewTask(event, source, entry) ==
    [event |-> event, source |-> source, entry |-> entry, pc |-> "start", i |-> 1,
     repository_id |-> None, err |-> None]

Running(t) == t.pc \notin {"done", "failed", "lost"}

DB == [events |-> events, repositories |-> repositories, commits |-> commits,
       pull_requests |-> pull_requests, issues |-> issues]

Failed(t, db, e) == [task |-> [t EXCEPT !.pc = "failed", !.err = Some(e)], db |-> db]

\* Event::mark_processed(pool, event.id).await? followed by Ok(())
mark_processed_step(t, db, dbok, now) ==
    IF ~dbok THEN Failed(t, db, "Database")
    ELSE [task |-> [t EXCEPT !.pc = "done"],
          db |-> [db EXCEPT !.events = Event_mark_processed(@, t.event.id, now)]]

\* extract_repository(payload)? ; Repository::create(pool, repo_data).await?
upsert_repository_step_NotStored(t, db, dbok, now, then) ==
    LET Upsert(repo_data) ==
            IF ~repo_data.ok THEN Failed(t, db, repo_data.e)
            ELSE IF ~dbok THEN Failed(t, db, "Database")
            ELSE [task |-> [t EXCEPT !.pc = then,
                                     !.repository_id = Some(Len(db.repositories) + 1)],
                  db |-> db]
    IN Bind(extract_repository(t.event.raw_event), Upsert)

upsert_repository_step(t, db, dbok, now, then) ==
    LET Upsert(repo_data) ==
            IF ~repo_data.ok THEN Failed(t, db, repo_data.e)
            ELSE IF ~dbok THEN Failed(t, db, "Database")
            ELSE LET Returned(repos) ==
                         [task |-> [t EXCEPT !.pc = then,
                                             !.repository_id =
                                                 Some(ReturnedByGithubId(repos, repo_data.v.github_id).id)],
                          db |-> [db EXCEPT !.repositories = repos]]
                 IN Bind(Repository_create(db.repositories, repo_data.v, now), Returned)
    IN Bind(extract_repository(t.event.raw_event), Upsert)

\* process_push_event after the repository upsert: one turn of the loop, or, when
\* the loop is over, the mark_processed that follows it in process_github_event
push_commits_step_FirstOnly(t, db, dbok, now) ==
    LET Loop(cs) ==
            IF IsNone(cs) THEN Failed(t, db, "InvalidPayload")
            ELSE IF t.i > 1 THEN mark_processed_step(t, db, dbok, now)
            ELSE LET Insert(commit) ==
                         IF ~commit.ok THEN Failed(t, db, commit.e)
                         ELSE IF ~dbok THEN Failed(t, db, "Database")
                         ELSE [task |-> [t EXCEPT !.i = @ + 1],
                               db |-> [db EXCEPT !.commits = Commit_create(@, commit.v, now)]]
                 IN Bind(extract_commit(Unwrap(cs)[t.i], Unwrap(t.repository_id), t.event.id),
                         Insert)
    IN Bind(as_array(Idx(t.event.raw_event, "commits")), Loop)

push_commits_step(t, db, dbok, now) ==
    LET Loop(cs) ==
            IF IsNone(cs) THEN Failed(t, db, "InvalidPayload")
            ELSE IF t.i > Len(Unwrap(cs)) THEN mark_processed_step(t, db, dbok, now)
            ELSE LET Insert(commit) ==
                         IF ~commit.ok THEN Failed(t, db, commit.e)
                         ELSE IF ~dbok THEN Failed(t, db, "Database")
                         ELSE [task |-> [t EXCEPT !.i = @ + 1],
                               db |-> [db EXCEPT !.commits = Commit_create(@, commit.v, now)]]
                 IN Bind(extract_commit(Unwrap(cs)[t.i], Unwrap(t.repository_id), t.event.id),
                         Insert)
    IN Bind(as_array(Idx(t.event.raw_event, "commits")), Loop)

\* process_pull_request_event after the repository upsert
pull_request_step(t, db, dbok, now) ==
    LET Insert(pr) ==
            IF ~pr.ok THEN Failed(t, db, pr.e)
            ELSE IF ~dbok THEN Failed(t, db, "Database")
            ELSE [task |-> [t EXCEPT !.pc = "mark"],
                  db |-> [db EXCEPT !.pull_requests = PullRequest_create(@, pr.v, now)]]
    IN Bind(extract_pull_request(Idx(t.event.raw_event, "pull_request"),
                                 Unwrap(t.repository_id), t.event.id), Insert)

\* process_issues_event after the repository upsert
issue_step(t, db, dbok, now) ==
    LET Insert(issue) ==
            IF ~issue.ok THEN Failed(t, db, issue.e)
            ELSE IF ~dbok THEN Failed(t, db, "Database")
            ELSE [task |-> [t EXCEPT !.pc = "mark"],
                  db |-> [db EXCEPT !.issues = Issue_create(@, issue.v, now)]]
    IN Bind(extract_issue(Idx(t.event.raw_event, "issue"),
                          Unwrap(t.repository_id), t.event.id), Insert)

\* process_github_event: the dispatch on event_type, up to its first statement
process_github_event_DefaultPush(t, db, dbok, now) ==
    CASE t.event.event_type = "pull_request" ->
            upsert_repository_step(t, db, dbok, now, "pull_request")
      [] t.event.event_type = "issues" -> upsert_repository_step(t, db, dbok, now, "issue")
      [] OTHER -> upsert_repository_step(t, db, dbok, now, "commits")

process_github_event(t, db, dbok, now) ==
    CASE t.event.event_type = "push" -> upsert_repository_step(t, db, dbok, now, "commits")
      [] t.event.event_type = "pull_request" ->
            upsert_repository_step(t, db, dbok, now, "pull_request")
      [] t.event.event_type = "issues" -> upsert_repository_step(t, db, dbok, now, "issue")
      [] OTHER -> mark_processed_step(t, db, dbok, now)

\* process_event_by_source: the dispatch on source, up to its first statement
process_event_by_source_AllGithub(t, db, dbok, now) == process_github_event(t, db, dbok, now)

\* process_event_by_source matching the source without regard to case and
\* surrounding white space
process_event_by_source_AnySpelling(t, db, dbok, now) ==
    CASE t.source \in {"github", "GitHub", "GITHUB", "github "} ->
            process_github_event(t, db, dbok, now)
      [] OTHER -> mark_processed_step(t, db, dbok, now)

process_event_by_source(t, db, dbok, now) ==
    CASE t.source = "github" -> process_github_event(t, db, dbok, now)
      [] t.source = "gitlab" -> mark_processed_step(t, db, dbok, now)
      [] t.source = "auth0" -> mark_processed_step(t, db, dbok, now)
      [] OTHER -> mark_processed_step(t, db, dbok, now)

\* the next statement of task t
task_step(t, db, dbok, now) ==
    CASE t.pc = "start" /\ t.entry = "process_event_by_source" ->
            process_event_by_source(t, db, dbok, now)
      [] t.pc = "start" /\ t.entry = "process_github_event" ->
            process_github_event(t, db, dbok, now)
      [] t.pc = "commits" -> push_commits_step(t, db, dbok, now)
      [] t.pc = "pull_request" -> pull_request_step(t, db, dbok, now)
      [] t.pc = "issue" -> issue_step(t, db, dbok, now)
      [] t.pc = "mark" -> mark_processed_step(t, db, dbok, now)

\* One statement of the k-th spawned task; dbok tells whether the statement succeeds.
ProjectStep(k, dbok) ==
    /\ Running(tasks[k])
    /\ \E r \in {task_step(tasks[k], DB, dbok, clock)} :
          /\ tasks' = [tasks EXCEPT ![k] = r.task]
          /\ events' = r.db.events
          /\ repositories' = r.db.repositories
          /\ commits' = r.db.commits
          /\ pull_requests' = r.db.pull_requests
          /\ issues' = r.db.issues
    /\ UNCHANGED <<webhook_events, last, clock>>

(***************************************************************************)
(* Ingestion endpoints (handlers/webhook.rs).                              *)
(* A handler's outcome: the response, the tables it leaves and the tasks   *)
(* it spawned.  stmts lists the INSERT statements the handler ran and      *)
(* whether each succeeded.                                                 *)
(***************************************************************************)
Response(req, status, body, stmts) ==
    [req |-> req, status |-> status, body |-> body, stmts |-> stmts]

Stmt(name, ok) == [stmt |-> name, ok |-> ok]

\* no response is waiting to be sent
NoResponse == [status |-> 0]

\* Uuid::new_v4(): a value no header and no earlier call yields
new_v4(evs) == [v4 |-> Len(evs) + 1]

\* the signature gate of generic_webhook: None lets the request pass, Some(error)
\* is the body of the 401 response
signature_gate_IfPresent(source, signature, body) ==
    IF source = "github" /\ IsSome(signature)
          /\ ~verify_github_signature(github_webhook_secret, body, Unwrap(signature))
    THEN Some("Invalid signature")
    ELSE None

signature_gate_AllSources(source, signature, body) ==
    IF IsSome(signature)
    THEN IF ~verify_github_signature(github_webhook_secret, body, Unwrap(signature))
         THEN Some("Invalid signature")
         ELSE None
    ELSE IF source = "github" THEN Some("Missing signature") ELSE None

signature_gate(source, signature, body) ==
    IF source = "github"
    THEN IF IsSome(signature)
         THEN IF ~verify_github_signature(github_webhook_secret, body, Unwrap(signature))
              THEN Some("Invalid signature")
              ELSE None
         ELSE Some("Missing signature")
    ELSE None

\* tokio::spawn(async move { process_...(&pool_clone, &event_clone ...) })
spawn_projection_Twice(event, source, entry) ==
    <<NewTask(event, source, entry), NewTask(event, source, entry)>>

spawn_projection(event, source, entry) == <<NewTask(event, source, entry)>>

\* generic_webhook up to the signature gate: the body is parsed, the adapter reads
\* the event type, the action and the signature, and the gate is applied.
\* Err(<<status, error>>) is an early return.
generic_webhook_checks_GateFirst(req) ==
    LET source == req.source
        parsed == from_slice(req.body)
        signature == extract_signature(source, req)
        gate == signature_gate(source, signature, req.body)
    IN IF IsSome(gate) THEN Err(<<401, Unwrap(gate)>>)
       ELSE IF IsNone(parsed) THEN Err(<<400, "Invalid JSON payload">>)
       ELSE Ok([payload |-> Unwrap(parsed),
                event_type |-> extract_event_type(source, Unwrap(parsed), req),
                action |-> extract_action(source, Unwrap(parsed)),
                signature |-> signature])

generic_webhook_checks(req) ==
    LET source == req.source
        parsed == from_slice(req.body)
    IN IF IsNone(parsed) THEN Err(<<400, "Invalid JSON payload">>)
       ELSE LET payload == Unwrap(parsed)
                event_type == extract_event_type(source, payload, req)
                action == extract_action(source, payload)
                signature == extract_signature(source, req)
                gate == signature_gate(source, signature, req.body)
            IN IF IsSome(gate) THEN Err(<<401, Unwrap(gate)>>)
               ELSE Ok([payload |-> payload, event_type |-> event_type,
                        action |-> action, signature |-> signature])

generic_webhook_outcome(req, evs, dbok, now) ==
    LET source == req.source
        delivery_id == UnwrapOr(extract_delivery_id(req, source), new_v4(evs))
        checks == generic_webhook_checks(req)
        Rejected(status, error, stmts) ==
            [response |-> Response(req, status, [error |-> error], stmts),
             events |-> evs, spawned |-> <<>>]
    IN IF ~checks.ok THEN Rejected(checks.e[1], checks.e[2], <<>>)
       ELSE
       LET payload == checks.v.payload
           actor == extract_actor_info(source, payload)
           create_event ==
               [source |-> source, event_type |-> checks.v.event_type,
                action |-> checks.v.action,
                actor_name |-> actor[1], actor_email |-> actor[2], actor_id |-> actor[3],
                raw_event |-> payload, delivery_id |-> delivery_id,
                signature |-> checks.v.signature, repository_id |-> None]
           event == EventRow(evs, create_event, now)
       IN IF ~dbok
          THEN Rejected(500, "Failed to store event", <<Stmt("Event::create", FALSE)>>)
          ELSE [response |->
                    Response(req, 200,
                             [status |-> "received", source |-> source,
                              event_id |-> event.id, event_type |-> checks.v.event_type],
                             <<Stmt("Event::create", TRUE)>>),
                events |-> Event_create(evs, create_event, now),
                spawned |-> spawn_projection(event, source, "process_event_by_source")]

\* POST /webhook/{source}
generic_webhook(req, dbok) ==
    /\ req.path = "/webhook/{source}"
    /\ last = NoResponse
    /\ Len(events) < MaxEvents
    /\ \E out \in {generic_webhook_outcome(req, events, dbok, clock)} :
          /\ last' = out.response
          /\ events' = out.events
          /\ tasks' = tasks \o out.spawned
    /\ UNCHANGED <<webhook_events, repositories, commits, pull_requests, issues, clock>>

\* the three mandatory headers of github_webhook: Ok(<<event_type, delivery_id,
\* signature>>) or Err(message of the 400 response)
legacy_headers_DeliveryOptional(req) ==
    LET event_type == Header(req, "X-GitHub-Event")
        delivery_id == AndThenParse(Header(req, "X-GitHub-Delivery"))
        signature == Header(req, "X-Hub-Signature-256")
    IN IF IsNone(event_type) THEN Err("Missing X-GitHub-Event header")
       ELSE IF IsNone(signature) THEN Err("Missing X-Hub-Signature-256 header")
       ELSE Ok(<<Unwrap(event_type), UnwrapOr(delivery_id, [v4 |-> 0]), Unwrap(signature)>>)

legacy_headers(req) ==
    LET event_type == Header(req, "X-GitHub-Event")
        delivery_id == AndThenParse(Header(req, "X-GitHub-Delivery"))
        signature == Header(req, "X-Hub-Signature-256")
    IN IF IsNone(event_type) THEN Err("Missing X-GitHub-Event header")
       ELSE IF IsNone(delivery_id) THEN Err("Invalid X-GitHub-Delivery header")
       ELSE IF IsNone(signature) THEN Err("Missing X-Hub-Signature-256 header")
       ELSE Ok(<<Unwrap(event_type), Unwrap(delivery_id), Unwrap(signature)>>)

\* the repository lookup of github_webhook: the values repository_id may get.  A
\* database error is logged and gives None.
lookup_repository_id(payload, repos) ==
    LET repo == Idx(payload, "repository")
    IN IF IsSome(as_object(repo)) /\ IsSome(as_i64(Idx(repo, "id")))
       THEN {None} \cup
            {IF IsSome(r) THEN Some(Unwrap(r).id) ELSE None :
                r \in Repository_find_by_full_name(repos,
                                                   UnwrapOr(as_str(Idx(repo, "full_name")), ""))}
       ELSE {None}

\* the repository ids the lookup of a legacy request may give
LegacyRepositoryIds(req) ==
    IF IsSome(from_slice(req.body))
    THEN lookup_repository_id(Unwrap(from_slice(req.body)), repositories)
    ELSE {None}

\* github_webhook up to the parsed payload: the mandatory headers, the signature
\* check and then the JSON parse.  Err(<<status, error>>) is an early return.
\* serde_json::to_vec of the parsed payload: one byte string per JSON value
to_vec_of_parsed(body) ==
    BodyNames[CHOOSE i \in DOMAIN BodyNames :
                 /\ from_slice(BodyNames[i]) = from_slice(body)
                 /\ \A j \in 1..(i - 1) : from_slice(BodyNames[j]) # from_slice(body)]

\* github_webhook verifying the signature over the re-serialized payload
github_webhook_checks_OverParsed(req) ==
    LET headers == legacy_headers(req)
    IN IF ~headers.ok THEN Err(<<400, headers.e>>)
       ELSE IF IsNone(from_slice(req.body)) THEN Err(<<400, "Invalid JSON payload">>)
       ELSE IF ~verify_github_signature(github_webhook_secret, to_vec_of_parsed(req.body),
                                        headers.v[3])
       THEN Err(<<401, "Invalid signature">>)
       ELSE Ok([event_type |-> headers.v[1], delivery_id |-> headers.v[2],
                signature |-> headers.v[3], payload |-> Unwrap(from_slice(req.body))])

github_webhook_checks(req) ==
    LET headers == legacy_headers(req)
    IN IF ~headers.ok THEN Err(<<400, headers.e>>)
       ELSE IF ~verify_github_signature(github_webhook_secret, req.body, headers.v[3])
       THEN Err(<<401, "Invalid signature">>)
       ELSE IF IsNone(from_slice(req.body)) THEN Err(<<400, "Invalid JSON payload">>)
       ELSE Ok([event_type |-> headers.v[1], delivery_id |-> headers.v[2],
                signature |-> headers.v[3], payload |-> Unwrap(from_slice(req.body))])

github_webhook_outcome(req, evs, whs, repository_id, legacy_ok, event_ok, now) ==
    LET checks == github_webhook_checks(req)
        Rejected(status, error, tbl, stmts) ==
            [response |-> Response(req, status, [error |-> error], stmts),
             events |-> evs, webhook_events |-> tbl, spawned |-> <<>>]
    IN IF ~checks.ok THEN Rejected(checks.e[1], checks.e[2], whs, <<>>)
       ELSE
       LET event_type == checks.v.event_type
           delivery_id == checks.v.delivery_id
           signature == checks.v.signature
           payload == checks.v.payload
           event_action == as_str(Idx(payload, "action"))
           webhook_event ==
               [repository_id |-> repository_id, event_type |-> event_type,
                event_action |-> event_action, delivery_id |-> delivery_id,
                payload |-> payload, signature |-> signature]
           stored == WebhookEvent_create(whs, webhook_event, now)
           create_event ==
               convert_github_webhook_to_event(event_type, event_action, payload,
                                               delivery_id, Some(signature),
                                               repository_id)
           event == EventRow(evs, create_event, now)
       IN IF ~legacy_ok
          THEN Rejected(500, "Failed to store event", whs,
                        <<Stmt("WebhookEvent::create", FALSE)>>)
          ELSE IF ~event_ok
          THEN Rejected(500, "Failed to store event", stored,
                        <<Stmt("WebhookEvent::create", TRUE),
                          Stmt("Event::create", FALSE)>>)
          ELSE [response |->
                    Response(req, 200, [status |-> "received", event_id |-> event.id],
                             <<Stmt("WebhookEvent::create", TRUE),
                               Stmt("Event::create", TRUE)>>),
                events |-> Event_create(evs, create_event, now),
                webhook_events |-> stored,
                spawned |-> spawn_projection(event, "github", "process_github_event")]

\* POST /webhooks/github
github_webhook(req, repository_id, legacy_ok, event_ok) ==
    /\ req.path = "/webhooks/github"
    /\ last = NoResponse
    /\ Len(events) < MaxEvents
    /\ Len(webhook_events) < MaxEvents
    /\ \E out \in {github_webhook_outcome(req, events, webhook_events, repository_id,
                                             legacy_ok, event_ok, clock)} :
          /\ last' = out.response
          /\ events' = out.events
          /\ webhook_events' = out.webhook_events
          /\ tasks' = tasks \o out.spawned
    /\ UNCHANGED <<repositories, commits, pull_requests, issues, clock>>

\* The response of the handler that ran last leaves the server.  Handlers are single
\* steps here, so they run one after the other; projection tasks run in between.
send_response ==
    /\ last # NoResponse
    /\ last' = NoResponse
    /\ UNCHANGED <<events, webhook_events, repositories, commits, pull_requests, issues,
                   tasks, clock>>

\* The process goes down and is started again: the store is kept, the tasks that
\* were running and the response in flight are gone.
Crash ==
    /\ \E k \in DOMAIN tasks : Running(tasks[k])
    /\ tasks' = [k \in DOMAIN tasks |->
                    IF Running(tasks[k]) THEN [tasks[k] EXCEPT !.pc = "lost"] ELSE tasks[k]]
    /\ last' = NoResponse
    /\ UNCHANGED <<events, webhook_events, repositories, commits, pull_requests, issues,
                   clock>>

\* the wall clock advances
Tick ==
    /\ clock < MaxClock
    /\ clock' = clock + 1
    /\ UNCHANGED <<events, webhook_events, repositories, commits, pull_requests, issues,
                   tasks, last>>

(***************************************************************************)
(* Requests of the model.                                                  *)
(***************************************************************************)
\* the header map holding `name` when its value is given
Hdr(name, opt) == IF IsSome(opt) THEN name :> Unwrap(opt) ELSE <<>>

\* signature headers sent with body b: none, the right one, one made with another secret
SigOpts(b) ==
    {None, Some(SignatureFor(github_webhook_secret, b)), Some(SignatureFor("other", b))}

LegacyRequestsOf(bodies) ==
    UNION {{[path |-> "/webhooks/github", source |-> "github", body |-> b,
             headers |-> Hdr("X-GitHub-Event", e) @@ Hdr("X-GitHub-Delivery", d)
                         @@ Hdr("X-Hub-Signature-256", s)] :
              e \in {None, Some("ping")}, d \in {None, Some("junk"), Some("d1")},
              s \in SigOpts(b)} : b \in bodies}

GenericGithubRequestsOf(bodies) ==
    UNION {{[path |-> "/webhook/{source}", source |-> "github", body |-> b,
             headers |-> Hdr("X-GitHub-Event", e) @@ Hdr("X-GitHub-Delivery", d)
                         @@ Hdr("X-Hub-Signature-256", s)] :
              e \in {None, Some("ping")}, d \in {None, Some("d1")},
              s \in SigOpts(b)} : b \in bodies}

\* other sources: with and without their signature or token header
OtherSourceRequestsOf(bodies) ==
    UNION {{[path |-> "/webhook/{source}", source |-> src, body |-> b,
             headers |-> Hdr("X-Gitlab-Token", s) @@ Hdr("X-Hub-Signature-256", s)] :
              src \in {"gitlab", "custom-ci"}, s \in {None, Some(SignatureFor("other", b))}} :
           b \in bodies}

LegacyRequests == LegacyRequestsOf({"garbage", "ping"})
GenericRequests ==
    GenericGithubRequestsOf({"garbage", "ping"}) \cup OtherSourceRequestsOf({"garbage", "custom"})

Init ==
    /\ events = <<>>
    /\ webhook_events = <<>>
    /\ repositories = <<>>
    /\ commits = <<>>
    /\ pull_requests = <<>>
    /\ issues = <<>>
    /\ tasks = <<>>
    /\ last = NoResponse
    /\ clock = 0

\* outcomes of the two INSERT statements of github_webhook
LegacyDbOutcomes == {<<TRUE, TRUE>>, <<TRUE, FALSE>>, <<FALSE, TRUE>>}

Next ==
    \/ \E req \in GenericRequests, dbok \in BOOLEAN : generic_webhook(req, dbok)
    \/ \E req \in LegacyRequests, db \in LegacyDbOutcomes :
          \E rid \in LegacyRepositoryIds(req) : github_webhook(req, rid, db[1], db[2])
    \/ \E k \in DOMAIN tasks, dbok \in BOOLEAN : ProjectStep(k, dbok)
    \/ send_response

Spec == Init /\ [][Next]_vars

(***************************************************************************)
(* SpecProj: authentic deliveries whose payload is a push: as push or ping *)
(* events on the legacy path, as ping events on the generic path, and from *)
(* a source without projector; every statement may fail.                   *)
(***************************************************************************)
Authentic(path, source, event_type, body) ==
    [path |-> path, source |-> source, body |-> body,
     headers |-> Hdr("X-GitHub-Event", Some(event_type)) @@ Hdr("X-GitHub-Delivery", Some("d1"))
                 @@ Hdr("X-Hub-Signature-256", Some(SignatureFor(github_webhook_secret, body)))]

ProjLegacyRequests ==
    {Authentic("/webhooks/github", "github", e, "push2") : e \in {"push", "ping"}}

ProjGenericRequests ==
    {Authentic("/webhook/{source}", "github", "ping", "push2")}
        \cup {[path |-> "/webhook/{source}", source |-> "custom-ci", body |-> "custom-push",
               headers |-> <<>>]}

NextProj ==
    \/ \E req \in ProjGenericRequests, dbok \in BOOLEAN : generic_webhook(req, dbok)
    \/ \E req \in ProjLegacyRequests, db \in LegacyDbOutcomes :
          \E rid \in LegacyRepositoryIds(req) : github_webhook(req, rid, db[1], db[2])
    \/ \E k \in DOMAIN tasks, dbok \in BOOLEAN : ProjectStep(k, dbok)
    \/ send_response

SpecProj == Init /\ [][NextProj]_vars

(***************************************************************************)
(* SpecLive: the generic path with a storage layer that does not fail.     *)
(* tokio runs every spawned task; fairness is assumed only for the tasks   *)
(* of sources other than github, the tasks of github may run or starve.    *)
(***************************************************************************)
LiveRequests ==
    OtherSourceRequestsOf({"custom", "custom-push"})
        \cup {Authentic("/webhook/{source}", "github", "push", "push2")}

NextLive ==
    \/ \E req \in LiveRequests : generic_webhook(req, TRUE)
    \/ \E k \in DOMAIN tasks : ProjectStep(k, TRUE)
    \/ send_response

SpecLive ==
    /\ Init
    /\ [][NextLive]_vars
    /\ \A k \in 1..MaxEvents :
          WF_vars(k \in DOMAIN tasks /\ tasks[k].source # "github" /\ ProjectStep(k, TRUE))

(***************************************************************************)
(* SpecPush: authentic deliveries of the two-commit push payload on both   *)
(* paths, and of the same payload sent as a ping; the storage layer does   *)
(* not fail and tokio runs every spawned task.                             *)
(***************************************************************************)
PushRequests ==
    {Authentic("/webhooks/github", "github", "push", "push2"),
     Authentic("/webhook/{source}", "github", "push", "push2"),
     Authentic("/webhook/{source}", "github", "ping", "push2")}

NextPush ==
    \/ \E req \in PushRequests : generic_webhook(req, TRUE)
    \/ \E req \in PushRequests :
          \E rid \in LegacyRepositoryIds(req) : github_webhook(req, rid, TRUE, TRUE)
    \/ \E k \in DOMAIN tasks : ProjectStep(k, TRUE)
    \/ send_response

SpecPush ==
    /\ Init
    /\ [][NextPush]_vars
    /\ \A k \in 1..MaxEvents : WF_vars(k \in DOMAIN tasks /\ ProjectStep(k, TRUE))

(***************************************************************************)
(* SpecMirror: authentic push, pull_request and issues deliveries for one  *)
(* repository on the generic path; every statement of a task may fail and  *)
(* the tasks interleave statement by statement.                            *)
(***************************************************************************)
MirrorRequests ==
    {Authentic("/webhook/{source}", "github", "push", "push2"),
     Authentic("/webhook/{source}", "github", "pull_request", "pr"),
     Authentic("/webhook/{source}", "github", "issues", "issue")}

NextMirror ==
    \/ \E req \in MirrorRequests : generic_webhook(req, TRUE)
    \/ \E k \in DOMAIN tasks, dbok \in BOOLEAN : ProjectStep(k, dbok)
    \/ send_response

SpecMirror == Init /\ [][NextMirror]_vars

(***************************************************************************)
(* SpecBad: authentic github deliveries whose payload lacks a field the    *)
(* projector requires or holds a timestamp that does not parse, next to a  *)
(* well-formed pull_request; every statement may fail and the process may  *)
(* go down.                                                                *)
(***************************************************************************)
BadRequests ==
    {Authentic("/webhook/{source}", "github", "push", "push-badcommit"),
     Authentic("/webhook/{source}", "github", "pull_request", "pr-nobase"),
     Authentic("/webhook/{source}", "github", "issues", "issue-nouser"),
     Authentic("/webhook/{source}", "github", "issues", "issue-badtime"),
     Authentic("/webhook/{source}", "github", "pull_request", "pr")}

NextBad ==
    \/ \E req \in BadRequests : generic_webhook(req, TRUE)
    \/ \E k \in DOMAIN tasks, dbok \in BOOLEAN : ProjectStep(k, dbok)
    \/ send_response
    \/ Crash

SpecBad == Init /\ [][NextBad]_vars

(***************************************************************************)
(* SpecClock: deliveries that need no row of the mirror (a github ping and *)
(* a custom source) while the wall clock advances; every statement may     *)
(* fail.                                                                   *)
(***************************************************************************)
ClockRequests ==
    {Authentic("/webhook/{source}", "github", "ping", "ping"),
     [path |-> "/webhook/{source}", source |-> "custom-ci", body |-> "custom",
      headers |-> <<>>]}

NextClock ==
    \/ \E req \in ClockRequests, dbok \in BOOLEAN : generic_webhook(req, dbok)
    \/ \E k \in DOMAIN tasks, dbok \in BOOLEAN : ProjectStep(k, dbok)
    \/ send_response
    \/ Tick

SpecClock == Init /\ [][NextClock]_vars

(***************************************************************************)
(* SpecStore: the Event store called directly.  Event::create and          *)
(* Event::mark_processed are applied to any row data and any id, present   *)
(* or not, while the wall clock advances; `last` holds the call that has   *)
(* not returned yet.                                                       *)
(***************************************************************************)
StoreCall(name, id) == [status |-> 0, call |-> name, id |-> id, result |-> Ok(<<>>)]

StoreEventData ==
    {convert_github_webhook_to_event("ping", None, PingJson, parse_str("d1")[1],
                                     Some(SignatureFor(github_webhook_secret, "ping")), None),
     [source |-> "custom-ci", event_type |-> "build", action |-> None,
      actor_name |-> None, actor_email |-> None, actor_id |-> None,
      raw_event |-> CustomJson, delivery_id |-> parse_str("d2")[1], signature |-> None,
      repository_id |-> None]}

\* Event::create(pool, data)
StoreCreate(data) ==
    /\ last = NoResponse
    /\ Len(events) < MaxEvents
    /\ events' = Event_create(events, data, clock)
    /\ last' = StoreCall("create", Len(events) + 1)
    /\ UNCHANGED <<webhook_events, repositories, commits, pull_requests, issues, tasks, clock>>

\* Event::mark_processed(pool, id)
StoreMarkProcessed(id) ==
    /\ last = NoResponse
    /\ events' = Event_mark_processed(events, id, clock)
    /\ last' = StoreCall("mark_processed", id)
    /\ UNCHANGED <<webhook_events, repositories, commits, pull_requests, issues, tasks, clock>>

NextStore ==
    \/ \E data \in StoreEventData : StoreCreate(data)
    \/ \E id \in 1..(MaxEvents + 1) : StoreMarkProcessed(id)
    \/ send_response
    \/ Tick

SpecStore == Init /\ [][NextStore]_vars

(***************************************************************************)
(* SpecSig: verify_github_signature applied to every secret, body and      *)
(* header "sha256=" + hex(d), d ranging over the digests of all secrets    *)
(* and bodies and over their variants with one bit flipped, with the last  *)
(* byte cut off and with one byte added.  `last` holds the call.           *)
(***************************************************************************)
\* d with the lowest bit of byte i flipped
FlipBit(d, i) == [d EXCEPT ![i] = IF @ % 2 = 0 THEN @ + 1 ELSE @ - 1]

HmacDigests == {HmacSha256(Secrets[i], b) : i \in DOMAIN Secrets, b \in Bodies}

Digests ==
    HmacDigests
        \cup {FlipBit(d, i) : d \in HmacDigests, i \in 1..2}
        \cup {SubSeq(d, 1, 1) : d \in HmacDigests}
        \cup {d \o <<0>> : d \in HmacDigests}

\* verify_github_signature(secret, payload, "sha256=" + hex(d))
VerifyCall(secret, payload, d) ==
    /\ last = NoResponse
    /\ last' = [status |-> 0, call |-> "verify_github_signature", secret |-> secret,
                payload |-> payload, digest |-> d,
                signature |-> Sha256Prefix \o hex_encode(d),
                result |-> verify_github_signature(secret, payload,
                                                   Sha256Prefix \o hex_encode(d))]
    /\ UNCHANGED <<events, webhook_events, repositories, commits, pull_requests, issues,
                   tasks, clock>>

NextSig ==
    \/ \E i \in DOMAIN Secrets, payload \in Bodies, d \in Digests :
          VerifyCall(Secrets[i], payload, d)
    \/ send_response

SpecSig == Init /\ [][NextSig]_vars

(***************************************************************************)
(* SpecHdr: verify_github_signature applied to every secret and body and   *)
(* to headers built from the right hex digest h of that secret and body:   *)
(* the right header, h under other prefixes, and "sha256=" followed by     *)
(* text that is no hexadecimal string.  `last` holds the call.             *)
(***************************************************************************)
HeadersFor(h) ==
    {Sha256Prefix \o h,
     h,
     <<>>,
     <<"s", "h", "a", "1", "=">> \o h,
     <<"S", "H", "A", "2", "5", "6", "=">> \o h,
     <<"s", "h", "a", "2", "5", "6">> \o h,
     <<"s", "h", "a", "2", "5", "6", ":">> \o h,
     <<" ">> \o Sha256Prefix \o h,
     SubSeq(Sha256Prefix, 1, 3),
     Sha256Prefix \o SubSeq(h, 1, Len(h) - 1),
     Sha256Prefix \o h \o <<"0">>,
     Sha256Prefix \o [h EXCEPT ![1] = "g"],
     Sha256Prefix \o [h EXCEPT ![Len(h)] = "-"],
     Sha256Prefix \o <<"0", "x">> \o h,
     Sha256Prefix \o h \o <<" ", " ">>}

\* verify_github_signature(secret, payload, signature)
VerifyHeader(secret, payload, signature) ==
    /\ last = NoResponse
    /\ last' = [status |-> 0, call |-> "verify_github_signature", secret |-> secret,
                payload |-> payload, signature |-> signature,
                result |-> verify_github_signature(secret, payload, signature)]
    /\ UNCHANGED <<events, webhook_events, repositories, commits, pull_requests, issues,
                   tasks, clock>>

NextHdr ==
    \/ \E i \in DOMAIN Secrets, payload \in Bodies :
          \E signature \in HeadersFor(hex_encode(HmacSha256(Secrets[i], payload))) :
             VerifyHeader(Secrets[i], payload, signature)
    \/ send_response

SpecHdr == Init /\ [][NextHdr]_vars

(***************************************************************************)
(* Filtered listing of the Event store (models/event.rs).  Both functions  *)
(* append one clause per supplied predicate to "WHERE 1=1" and push the    *)
(* value, converted to a String, onto `bindings`; every binding, the limit *)
(* and the offset included, is bound as a String, so that PostgreSQL gets  *)
(* every parameter declared as text.                                       *)
(***************************************************************************)
\* bool::to_string
bool_to_string(b) == IF b THEN "true" ELSE "false"

\* " AND <column> <op> $n" with the String pushed for $n
Clause(column, op, binding) == [column |-> column, op |-> op, bind |-> binding]

\* a filter that, as the search text, is pushed only when it is not empty
PushIfSome_NonEmpty(opt, column) ==
    IF IsSome(opt) /\ Unwrap(opt) # "" THEN <<Clause(column, "=", Unwrap(opt))>> ELSE <<>>

\* if let Some(v) = opt { push_str(" AND column = $n"); bindings.push(v.to_string()) }
PushIfSome(opt, column) ==
    IF IsSome(opt) THEN <<Clause(column, "=", Unwrap(opt))>> ELSE <<>>

\* format!("%{s}%"), pushed only for a search text that is not empty
PushSearch(search) ==
    IF IsSome(search) /\ Unwrap(search) # ""
    THEN <<Clause("raw_event::text", "ILIKE", [like |-> Unwrap(search)])>>
    ELSE <<>>

MapBoolToString(o) == IF IsSome(o) THEN Some(bool_to_string(Unwrap(o))) ELSE None

\* the query text and bindings built by Event::search_and_filter
search_and_filter_query(f, limit, offset) ==
    [select |-> "*",
     where |-> PushIfSome(f.source, "source")
                 \o PushIfSome(f.event_type, "event_type")
                 \o PushIfSome(f.action, "action")
                 \o PushIfSome(f.actor_name, "actor_name")
                 \o PushIfSome(MapBoolToString(f.processed), "processed")
                 \o PushSearch(f.search),
     order_by |-> "received_at DESC",
     limit |-> Some(IntToString(limit)), offset |-> Some(IntToString(offset))]

\* the query text and bindings built by Event::count_filtered
count_filtered_query(f) ==
    [select |-> "COUNT(*)",
     where |-> PushIfSome(f.source, "source")
                 \o PushIfSome(f.event_type, "event_type")
                 \o PushIfSome(f.action, "action")
                 \o PushIfSome(f.actor_name, "actor_name")
                 \o PushIfSome(MapBoolToString(f.processed), "processed")
                 \o PushSearch(f.search),
     order_by |-> "", limit |-> None, offset |-> None]

\* the columns of `events` that the clauses name: all text but `processed`
ColumnType(column) == IF column = "processed" THEN "boolean" ELSE "text"

\* PostgreSQL resolves every clause and LIMIT/OFFSET with the parameter typed text:
\* there is no operator boolean = text, and LIMIT and OFFSET must be bigint
Typechecks(q) ==
    /\ \A i \in DOMAIN q.where : ColumnType(q.where[i].column) = "text"
    /\ IsNone(q.limit)
    /\ IsNone(q.offset)

\* the strings (keys and values) a JSON value is serialized from
RECURSIVE JsonStrings(_)
JsonStrings(j) ==
    CASE j.t = "str" -> {j.s}
      [] j.t = "arr" -> UNION {JsonStrings(j.a[i]) : i \in DOMAIN j.a}
      [] j.t = "obj" -> DOMAIN j.o \cup UNION {JsonStrings(j.o[k]) : k \in DOMAIN j.o}
      [] OTHER -> {}

\* lower case of the search texts
Lower(s) == IF s = "OCTOCAT" THEN "octocat" ELSE s

\* raw_event::text ILIKE '%s%', for a text s that is one of the serialized strings
ILike(j, s) == \E w \in JsonStrings(j) : Lower(w) = Lower(s)

\* column = 'text' over one row; NULL = 'text' is not true
RowMatches(e, c) ==
    CASE c.column = "source" -> e.source = c.bind
      [] c.column = "event_type" -> e.event_type = c.bind
      [] c.column = "action" -> e.action = Some(c.bind)
      [] c.column = "actor_name" -> e.actor_name = Some(c.bind)
      [] c.column = "processed" -> bool_to_string(e.processed) = c.bind
      [] c.column = "raw_event::text" -> ILike(e.raw_event, c.bind.like)

Selected(evs, q) ==
    SelectSeq(evs, LAMBDA e : \A i \in DOMAIN q.where : RowMatches(e, q.where[i]))

\* rows in descending order of received_at (rows are stored in that order, ascending)
Descending(rows) == [i \in 1..Len(rows) |-> rows[Len(rows) + 1 - i]]

\* Event::search_and_filter: fetch_all, Err on a database error
Event_search_and_filter(evs, f, limit, offset) ==
    IF ~Typechecks(search_and_filter_query(f, limit, offset)) THEN Err("Database")
    ELSE Ok(SubSeq(Descending(Selected(evs, search_and_filter_query(f, limit, offset))),
                   offset + 1, offset + limit))

\* Event::count_filtered: fetch_one, Err on a database error
Event_count_filtered(evs, f) ==
    IF ~Typechecks(count_filtered_query(f)) THEN Err("Database")
    ELSE Ok(Len(Selected(evs, count_filtered_query(f))))

(***************************************************************************)
(* SpecQuery: Event::create and Event::mark_processed build the store, and *)
(* search_and_filter (offset 0, a limit no smaller than the store) and     *)
(* count_filtered are called with the same predicates on it.               *)
(***************************************************************************)
per_page == 300

EventFilters ==
    [source : {None, Some("github")}, event_type : {None, Some("build")},
     action : {None, Some("finished")}, actor_name : {None, Some("octocat")},
     processed : {None, Some(TRUE), Some(FALSE)},
     search : {None, Some(""), Some("OCTOCAT")}]

QueryEvents(f, limit) ==
    /\ last = NoResponse
    /\ limit >= Len(events)
    /\ last' = [status |-> 0, call |-> "search_and_filter", filter |-> f, limit |-> limit,
                rows |-> Event_search_and_filter(events, f, limit, 0),
                count |-> Event_count_filtered(events, f)]
    /\ UNCHANGED <<events, webhook_events, repositories, commits, pull_requests, issues,
                   tasks, clock>>

NextQuery ==
    \/ \E data \in StoreEventData : StoreCreate(data)
    \/ \E id \in 1..MaxEvents : StoreMarkProcessed(id)
    \/ \E f \in EventFilters, limit \in {MaxEvents, per_page} : QueryEvents(f, limit)
    \/ send_response

SpecQuery == Init /\ [][NextQuery]_vars

(***************************************************************************)
(* SpecTime: authentic github deliveries on the generic path whose payload *)
(* holds a timestamp that is no ISO-8601 text, in each timestamp field the *)
(* projector reads; every statement of a task may fail.                    *)
(***************************************************************************)
TimeRequests ==
    {Authentic("/webhook/{source}", "github", "push", "push-badtime"),
     Authentic("/webhook/{source}", "github", "pull_request", "pr-badcreated"),
     Authentic("/webhook/{source}", "github", "pull_request", "pr-badclosed"),
     Authentic("/webhook/{source}", "github", "issues", "issue-badtime"),
     Authentic("/webhook/{source}", "github", "issues", "issue-badclosed")}

NextTime ==
    \/ \E req \in TimeRequests : generic_webhook(req, TRUE)
    \/ \E k \in DOMAIN tasks, dbok \in BOOLEAN : ProjectStep(k, dbok)
    \/ send_response

SpecTime == Init /\ [][NextTime]_vars

(***************************************************************************)
(* SpecRepo: authentic github pushes on the generic path that sight one    *)
(* repository under two descriptions, and another repository; the pushes   *)
(* list the same commit sha.  No statement fails.                          *)
(***************************************************************************)
RepoRequests ==
    {Authentic("/webhook/{source}", "github", "push", "push2"),
     Authentic("/webhook/{source}", "github", "push", "push-renamed"),
     Authentic("/webhook/{source}", "github", "push", "push-other")}

NextRepo ==
    \/ \E req \in RepoRequests : generic_webhook(req, TRUE)
    \/ \E k \in DOMAIN tasks : ProjectStep(k, TRUE)
    \/ send_response

SpecRepo == Init /\ [][NextRepo]_vars

(***************************************************************************)
(* Re-sighted pull requests and issues: authentic deliveries about one     *)
(* pull request (closed, reopened, merged) and one issue (open, closed),   *)
(* projected by concurrent tasks whose statements succeed.                 *)
(***************************************************************************)
RefreshRequests ==
    {Authentic("/webhook/{source}", "github", "pull_request", "pr"),
     Authentic("/webhook/{source}", "github", "pull_request", "pr-reopened"),
     Authentic("/webhook/{source}", "github", "pull_request", "pr-merged"),
     Authentic("/webhook/{source}", "github", "issues", "issue"),
     Authentic("/webhook/{source}", "github", "issues", "issue-closed")}

NextRefresh ==
    \/ \E req \in RefreshRequests : generic_webhook(req, TRUE)
    \/ \E k \in DOMAIN tasks : ProjectStep(k, TRUE)
    \/ send_response

SpecRefresh == Init /\ [][NextRefresh]_vars

(***************************************************************************)
(* Event types.  extract_event_type applied to every source, payload and   *)
(* header combination of the model (`last` holds the call), and requests   *)
(* to /webhook/{source} that carry no event-type header, with the tasks    *)
(* they spawn.                                                             *)
(***************************************************************************)
TypeSources == {"github", "gitlab", "auth0", "custom-ci"}

TypeBodies == {"ping", "custom", "gitlab-push", "typed", "event-only", "push2"}

\* the event-type headers of a request: none, one of either platform, both, and one
\* whose value is not text
TypeHeaders ==
    {[headers |-> h, opaque |-> o] :
        h \in {<<>>, Hdr("X-GitHub-Event", Some("push")),
               Hdr("X-Gitlab-Event", Some("Push Hook")),
               Hdr("X-GitHub-Event", Some("push")) @@ Hdr("X-Gitlab-Event", Some("Push Hook"))},
        o \in {{}, {"X-GitHub-Event", "X-Gitlab-Event"}}}

ExtractCall(source, body, hs) ==
    /\ last = NoResponse
    /\ \E req \in {[path |-> "/webhook/{source}", source |-> source, body |-> body,
                    headers |-> hs.headers, opaque |-> hs.opaque]} :
          last' = [status |-> 0, call |-> "extract_event_type", source |-> source,
                   payload |-> Unwrap(from_slice(body)), req |-> req,
                   result |-> extract_event_type(source, Unwrap(from_slice(body)), req)]
    /\ UNCHANGED <<events, webhook_events, repositories, commits, pull_requests, issues,
                   tasks, clock>>

\* a signed github push without X-GitHub-Event, the same with it, and unsigned
\* deliveries of other sources without event-type header
TypeRequests ==
    {[path |-> "/webhook/{source}", source |-> "github", body |-> "push2",
      headers |-> Hdr("X-Hub-Signature-256",
                      Some(SignatureFor(github_webhook_secret, "push2")))],
     Authentic("/webhook/{source}", "github", "push", "push2"),
     [path |-> "/webhook/{source}", source |-> "gitlab", body |-> "gitlab-push",
      headers |-> <<>>],
     [path |-> "/webhook/{source}", source |-> "custom-ci", body |-> "ping",
      headers |-> <<>>]}

NextType ==
    \/ \E source \in TypeSources, body \in TypeBodies, hs \in TypeHeaders :
          ExtractCall(source, body, hs)
    \/ \E req \in TypeRequests : generic_webhook(req, TRUE)
    \/ \E k \in DOMAIN tasks : ProjectStep(k, TRUE)
    \/ send_response

SpecType == Init /\ [][NextType]_vars

(***************************************************************************)
(* Raw bodies.  "ping" and "ping " are two byte strings that parse to the  *)
(* same JSON value; a sender holding the secret signs one of them and      *)
(* sends it, or the other one, to either endpoint.                         *)
(***************************************************************************)
RawBodies == {"ping", "ping "}

RawRequests ==
    {[path |-> p, source |-> "github", body |-> b,
      headers |-> Hdr("X-GitHub-Event", Some("ping")) @@ Hdr("X-GitHub-Delivery", Some("d1"))
                  @@ Hdr("X-Hub-Signature-256",
                         Some(SignatureFor(github_webhook_secret, signed)))] :
        p \in {"/webhooks/github", "/webhook/{source}"}, b \in RawBodies, signed \in RawBodies}

NextRaw ==
    \/ \E req \in {r \in RawRequests : r.path = "/webhook/{source}"}, dbok \in BOOLEAN :
          generic_webhook(req, dbok)
    \/ \E req \in {r \in RawRequests : r.path = "/webhooks/github"}, db \in LegacyDbOutcomes :
          \E rid \in LegacyRepositoryIds(req) : github_webhook(req, rid, db[1], db[2])
    \/ \E k \in DOMAIN tasks, dbok \in BOOLEAN : ProjectStep(k, dbok)
    \/ send_response

SpecRaw == Init /\ [][NextRaw]_vars

(***************************************************************************)
(* Paging parameters (utils/pagination.rs).  i64 is modelled at the width  *)
(* IntBits; an arithmetic overflow panics in a build with overflow checks  *)
(* and wraps in a build without them.                                      *)
(***************************************************************************)
I64Min == 0 - 2 ^ (IntBits - 1)
I64Max == 2 ^ (IntBits - 1) - 1
I64 == I64Min..I64Max

\* two's complement wrap-around
Wrap(x) == ((x - I64Min) % (2 ^ IntBits)) + I64Min

Panic == Err("attempt to multiply or subtract with overflow")

default_page == 1

default_per_page == 20

\* serde: a field absent from the query string takes its default
PaginationParams_deserialize(q) ==
    [page |-> UnwrapOr(q.page, default_page), per_page |-> UnwrapOr(q.per_page, default_per_page)]

\* i64::max
i64_max(a, b) == IF a >= b THEN a ELSE b

\* i64::clamp
i64_clamp(x, lo, hi) == IF x < lo THEN lo ELSE IF x > hi THEN hi ELSE x

\* (self.page - 1).max(0) * self.per_page
PaginationParams_offset(self, overflow_checks) ==
    LET minus == self.page - 1
        times == i64_max(Wrap(minus), 0) * self.per_page
    IN IF overflow_checks /\ (minus \notin I64 \/ times \notin I64) THEN Panic
       ELSE Ok(Wrap(times))

\* self.per_page.clamp(1, 100)
PaginationParams_limit(self) == i64_clamp(self.per_page, 1, 100)

\* the query strings of the model: each parameter absent or an i64
PageQueries ==
    [page : {None} \cup {Some(n) : n \in {I64Min, -1, 0, 1, 2, 3, I64Max}},
     per_page : {None} \cup {Some(n) : n \in {I64Min, -5, 0, 1, 20, 100, 101, 200, I64Max}}]

\* list_repositories up to the two values it passes to Repository::list_all
PageCall(q, overflow_checks) ==
    /\ last = NoResponse
    /\ \E params \in {PaginationParams_deserialize(q)} :
          last' = [status |-> 0, call |-> "list_repositories", query |-> q,
                   params |-> params, overflow_checks |-> overflow_checks,
                   limit |-> PaginationParams_limit(params),
                   offset |-> PaginationParams_offset(params, overflow_checks)]
    /\ UNCHANGED <<events, webhook_events, repositories, commits, pull_requests, issues,
                   tasks, clock>>

NextPage ==
    \/ \E q \in PageQueries, overflow_checks \in BOOLEAN : PageCall(q, overflow_checks)
    \/ send_response

SpecPage == Init /\ [][NextPage]_vars

(***************************************************************************)
(* Spellings of the source.  A well-formed push sent to /webhook/{source}  *)
(* with a path segment that is "github" in another spelling (as GitHub     *)
(* sends it, and with "type": "push" in the payload): unsigned, rightly    *)
(* signed and wrongly signed; and, for comparison, to                      *)
(* /webhook/github unsigned and rightly signed.  The storage layer does    *)
(* not fail; tokio runs every spawned task of the other spellings.         *)
(***************************************************************************)
Spellings == {"GitHub", "GITHUB", "github "}

SpellingRequests ==
    UNION {{[path |-> "/webhook/{source}", source |-> s, body |-> b,
             headers |-> Hdr("X-GitHub-Event", Some("push"))
                         @@ Hdr("X-Hub-Signature-256", sig)] :
               s \in Spellings, sig \in SigOpts(b)} : b \in {"push2", "custom-push"}}
        \cup {Authentic("/webhook/{source}", "github", "push", "push2"),
              [path |-> "/webhook/{source}", source |-> "github", body |-> "push2",
               headers |-> Hdr("X-GitHub-Event", Some("push"))]}

NextSpelling ==
    \/ \E req \in SpellingRequests : generic_webhook(req, TRUE)
    \/ \E k \in DOMAIN tasks : ProjectStep(k, TRUE)
    \/ send_response

SpecSpelling ==
    /\ Init
    /\ [][NextSpelling]_vars
    /\ \A k \in 1..MaxEvents :
          WF_vars(k \in DOMAIN tasks /\ tasks[k].source # "github" /\ ProjectStep(k, TRUE))

(***************************************************************************)
(* Actors.  The same authentic GitHub payloads delivered to both           *)
(* endpoints: with sender.login (ping, pull_request), with a pusher and    *)
(* commits only (push2), with commits only (custom-push), and with         *)
(* sender.id and a pusher (push-senderid).  The storage layer does not     *)
(* fail.                                                                   *)
(***************************************************************************)
ActorBodies == {"ping", "pr", "push2", "custom-push", "push-senderid"}

ActorRequests ==
    {Authentic(p, "github", "push", b) :
        p \in {"/webhooks/github", "/webhook/{source}"}, b \in ActorBodies}

NextActor ==
    \/ \E req \in ActorRequests : generic_webhook(req, TRUE)
    \/ \E req \in ActorRequests :
          \E rid \in LegacyRepositoryIds(req) : github_webhook(req, rid, TRUE, TRUE)
    \/ \E k \in DOMAIN tasks : ProjectStep(k, TRUE)
    \/ send_response

SpecActor == Init /\ [][NextActor]_vars

(***************************************************************************)
(* SpecEmpty: Event::create builds a store that holds Events whose action  *)
(* and actor_name are null and Events whose event_type and action are the  *)
(* empty string; list_events is called with filters whose texts are        *)
(* absent, empty or not empty.  `last` holds the WHERE conjunctions of the *)
(* two queries, the rows the conjunction selects and the two results.      *)
(***************************************************************************)
\* a payload whose type and action are the empty string
EmptyTypedJson ==
    JObj([type |-> JStr(""), action |-> JStr("")])

EmptyEventData ==
    StoreEventData \cup
    {[source |-> "custom-ci", event_type |-> "", action |-> Some(""),
      actor_name |-> None, actor_email |-> None, actor_id |-> None,
      raw_event |-> EmptyTypedJson, delivery_id |-> None, signature |-> None,
      repository_id |-> None]}

EmptyFilters ==
    [source : {None, Some(""), Some("custom-ci")}, event_type : {None, Some("")},
     action : {None, Some("")}, actor_name : {None, Some("")},
     processed : {None, Some(TRUE)},
     search : {None, Some("")}]

\* list_events: search_and_filter and count_filtered with the query's filters
ListEventsCall(f) ==
    /\ last = NoResponse
    /\ last' = [status |-> 0, call |-> "list_events", filter |-> f,
                search_where |-> search_and_filter_query(f, per_page, 0).where,
                count_where |-> count_filtered_query(f).where,
                selected |-> Selected(events, search_and_filter_query(f, per_page, 0)),
                rows |-> Event_search_and_filter(events, f, per_page, 0),
                count |-> Event_count_filtered(events, f)]
    /\ UNCHANGED <<events, webhook_events, repositories, commits, pull_requests, issues,
                   tasks, clock>>

NextEmpty ==
    \/ \E data \in EmptyEventData : StoreCreate(data)
    \/ \E f \in EmptyFilters : ListEventsCall(f)
    \/ send_response

SpecEmpty == Init /\ [][NextEmpty]_vars

(***************************************************************************)
(* Vocabulary of the properties.  The requests are described by what was   *)
(* sent, not by what the handlers compute from it.                         *)
(***************************************************************************)
\* a handler ran in this step and produced the response last'
Handled == last = NoResponse /\ last' # NoResponse

OnLegacyPath(req) == req.path = "/webhooks/github"
OnGenericPath(req) == req.path = "/webhook/{source}"

Has(req, name) == name \in DOMAIN req.headers

\* the bodies that are JSON texts
JsonBodies == {"ping", "ping ", "push2", "custom", "custom-push"}

\* the signature header is the HMAC of the body under the configured secret
RightlySigned(req) ==
    /\ Has(req, "X-Hub-Signature-256")
    /\ req.headers["X-Hub-Signature-256"] = SignatureFor(github_webhook_secret, req.body)

\* a signature header that does not verify
WronglySigned(req) == Has(req, "X-Hub-Signature-256") /\ ~RightlySigned(req)

\* the three mandatory headers of the legacy path are there, the delivery id a UUID
LegacyHeadersGiven(req) ==
    /\ Has(req, "X-GitHub-Event")
    /\ Has(req, "X-GitHub-Delivery")
    /\ req.headers["X-GitHub-Delivery"] \in UuidStrings
    /\ Has(req, "X-Hub-Signature-256")

\* nothing was written and no task was spawned in this step
NothingPersisted == UNCHANGED <<store, tasks>>

\* the request fails authentication: on the generic path a github request without
\* signature, on either path a github request whose signature does not verify
AuthenticationFails(req) ==
    \/ OnGenericPath(req) /\ req.source = "github" /\ ~Has(req, "X-Hub-Signature-256")
    \/ OnGenericPath(req) /\ req.source = "github" /\ WronglySigned(req)
    \/ OnLegacyPath(req) /\ WronglySigned(req)

\* the request gets as far as the signature check of its handler
ReachesSignatureCheck(req) ==
    IF OnLegacyPath(req) THEN LegacyHeadersGiven(req) ELSE req.body \in JsonBodies

(***************************************************************************)
(* C1 (as stated): a github request whose signature is missing (generic    *)
(* path) or does not verify (either path) is answered 401 and persists     *)
(* nothing.  Refuted: a request that fails an earlier check of its handler *)
(* (generic: the body is no JSON; legacy: a mandatory header is missing)   *)
(* is answered 400.                                                        *)
(***************************************************************************)
C1_AsStated ==
    [][Handled /\ AuthenticationFails(last'.req)
          => last'.status = 401 /\ NothingPersisted]_vars

(***************************************************************************)
(* C1 (amended): such a request is never accepted and persists no Event    *)
(* row, no webhook_events row and spawns no task; it is answered 401 when  *)
(* it gets as far as the signature check, and 400 otherwise.               *)
(***************************************************************************)
C1_Rejected ==
    [][Handled /\ AuthenticationFails(last'.req)
          => /\ last'.status = (IF ReachesSignatureCheck(last'.req) THEN 401 ELSE 400)
             /\ NothingPersisted]_vars

C1_Witness ==
    /\ last # NoResponse
    /\ last.status = 401
    /\ OnGenericPath(last.req)
    /\ last.req.source = "github"
    /\ ~Has(last.req, "X-Hub-Signature-256")
    /\ last.req.body \in JsonBodies

(***************************************************************************)
(* C2: on the generic path, for a source other than github and a JSON body, *)
(* the outcome does not depend on the signature or token headers: whenever *)
(* the insert succeeds the request is answered 200 and persists an Event,  *)
(* and so is every request that differs from it only in those headers.     *)
(***************************************************************************)
SignatureHeaderNames == {"X-Hub-Signature-256", "X-Gitlab-Token"}

SameButSignature(r1, r2) ==
    /\ r1.path = r2.path
    /\ r1.source = r2.source
    /\ r1.body = r2.body
    /\ \A n \in (DOMAIN r1.headers \cup DOMAIN r2.headers) \ SignatureHeaderNames :
          Has(r1, n) /\ Has(r2, n) /\ r1.headers[n] = r2.headers[n]

C2_HeadersDoNotMatter ==
    [][Handled /\ OnGenericPath(last'.req) /\ last'.req.source # "github"
           /\ last'.req.body \in JsonBodies /\ last'.status # 500
          => /\ last'.status = 200
             /\ Len(events') = Len(events) + 1
             /\ \A r2 \in {r \in GenericRequests : SameButSignature(r, last'.req)} :
                   LET other == generic_webhook_outcome(r2, events, TRUE, clock)
                   IN /\ other.response.status = last'.status
                      /\ Len(other.events) = Len(events')]_vars

C2_Witness ==
    /\ last # NoResponse
    /\ last.status = 200
    /\ last.req.source = "gitlab"
    /\ Has(last.req, "X-Gitlab-Token")
    /\ events[last.body.event_id].source = "gitlab"

(***************************************************************************)
(* C3 (as stated): on both paths a body that is no JSON is answered 400    *)
(* and persists nothing, whatever the signature.  Refuted on the legacy    *)
(* path, which checks the signature before it parses the body.             *)
(***************************************************************************)
C3_AsStated ==
    [][Handled /\ last'.req.body \notin JsonBodies
          => last'.status = 400 /\ NothingPersisted]_vars

(***************************************************************************)
(* C3 (amended): a body that is no JSON persists nothing on either path.   *)
(* The generic path parses before the signature gate and answers 400       *)
(* whatever the signature.  The legacy path checks the signature first: it *)
(* answers 401 when the three headers are given and the signature does not *)
(* verify, and 400 otherwise.                                              *)
(***************************************************************************)
C3_ParseOrder ==
    [][Handled /\ last'.req.body \notin JsonBodies
          => /\ NothingPersisted
             /\ last'.status =
                   (IF OnLegacyPath(last'.req) /\ LegacyHeadersGiven(last'.req)
                          /\ WronglySigned(last'.req)
                    THEN 401 ELSE 400)]_vars

C3_Witness ==
    /\ last # NoResponse
    /\ last.status = 400
    /\ OnGenericPath(last.req)
    /\ last.req.source = "github"
    /\ last.req.body \notin JsonBodies
    /\ WronglySigned(last.req)

(***************************************************************************)
(* C4: on the legacy path a request without event-type header, without a   *)
(* delivery-id header that parses as a UUID, or without signature header   *)
(* is answered 400; nothing is persisted and no projection is spawned.     *)
(***************************************************************************)
C4_LegacyMandatoryHeaders ==
    [][Handled /\ OnLegacyPath(last'.req) /\ ~LegacyHeadersGiven(last'.req)
          => last'.status = 400 /\ NothingPersisted]_vars

C4_Witness ==
    /\ last # NoResponse
    /\ last.status = 400
    /\ OnLegacyPath(last.req)
    /\ Has(last.req, "X-GitHub-Event")
    /\ Has(last.req, "X-GitHub-Delivery")
    /\ last.req.headers["X-GitHub-Delivery"] \notin UuidStrings
    /\ RightlySigned(last.req)
    /\ last.req.body \in JsonBodies

(***************************************************************************)
(* C5: whenever a request is answered 200, the Event row with the returned *)
(* event_id is in the store when the response is produced, and carries the *)
(* request's source, event type, action, parsed payload and delivery id.   *)
(***************************************************************************)
\* what the request says about itself
RequestSource(req) == IF OnLegacyPath(req) THEN "github" ELSE req.source
RequestPayload(req) == Unwrap(from_slice(req.body))
RequestEventType(req) ==
    IF OnLegacyPath(req) THEN req.headers["X-GitHub-Event"]
    ELSE extract_event_type(req.source, RequestPayload(req), req)
RequestAction(req) ==
    IF OnLegacyPath(req) THEN as_str(Idx(RequestPayload(req), "action"))
    ELSE extract_action(req.source, RequestPayload(req))
RequestDeliveryId(req) == extract_delivery_id(req, RequestSource(req))

C5_AcceptedIsStored ==
    (last # NoResponse /\ last.status = 200)
        => /\ last.body.event_id \in DOMAIN events
           /\ LET e == events[last.body.event_id]
              IN /\ e.id = last.body.event_id
                 /\ e.source = RequestSource(last.req)
                 /\ e.event_type = RequestEventType(last.req)
                 /\ e.action = RequestAction(last.req)
                 /\ e.raw_event = RequestPayload(last.req)
                 /\ IF IsSome(RequestDeliveryId(last.req))
                    THEN e.delivery_id = Unwrap(RequestDeliveryId(last.req))
                    ELSE "v4" \in DOMAIN e.delivery_id

C5_Witness ==
    /\ last # NoResponse
    /\ last.status = 200
    /\ OnGenericPath(last.req)
    /\ last.req.source = "github"
    /\ Has(last.req, "X-GitHub-Delivery")
    /\ last.body.event_id = 2
    /\ Len(events) = 2

(***************************************************************************)
(* C6 (as stated): when Event::create fails during a request, on either    *)
(* path, the response is 500, no task is spawned and the store is left as  *)
(* it was before the request.  Violated on the legacy path, where the      *)
(* webhook_events row written before Event::create stays behind.           *)
(***************************************************************************)
EventCreateFailed(resp) ==
    \E i \in DOMAIN resp.stmts : resp.stmts[i] = Stmt("Event::create", FALSE)

C6_AsStated ==
    [][Handled /\ EventCreateFailed(last')
          => last'.status = 500 /\ tasks' = tasks /\ UNCHANGED store]_vars

(***************************************************************************)
(* C8: a request answered 200 spawns exactly one projection task, for its  *)
(* Event; a rejected request spawns none; nothing else ever spawns a task, *)
(* no two tasks are for the same Event, and a task that has ended never    *)
(* runs again.                                                             *)
(***************************************************************************)
C8_OneTaskPerAccepted ==
    /\ [](\A k1, k2 \in DOMAIN tasks : k1 # k2 => tasks[k1].event.id # tasks[k2].event.id)
    /\ [][Handled =>
            IF last'.status = 200
            THEN /\ Len(tasks') = Len(tasks) + 1
                 /\ SubSeq(tasks', 1, Len(tasks)) = tasks
                 /\ tasks'[Len(tasks')].event.id = last'.body.event_id
                 /\ tasks'[Len(tasks')].pc = "start"
            ELSE tasks' = tasks]_vars
    /\ [][~Handled =>
            /\ Len(tasks') = Len(tasks)
            /\ \A k \in DOMAIN tasks : ~Running(tasks[k]) => tasks'[k] = tasks[k]]_vars

C8_Witness ==
    /\ last # NoResponse
    /\ last.status = 200
    /\ Len(tasks) = 2
    /\ ~Running(tasks[1])

(***************************************************************************)
(* C7: the Event is in the store before any step of its projection: every  *)
(* task is for a stored Event, every step of a task finds its Event in the *)
(* store, and every projected row names a stored Event.  The response does *)
(* not wait for the projection: once produced it is only sent, never       *)
(* changed by a projection step.                                           *)
(***************************************************************************)
ProvenanceIds ==
    {r.webhook_event_id : r \in Rows(commits) \cup Rows(pull_requests) \cup Rows(issues)}

C7_CreationPrecedesProjection ==
    /\ [](\A k \in DOMAIN tasks :
             /\ tasks[k].event.id \in DOMAIN events
             /\ events[tasks[k].event.id].id = tasks[k].event.id
             /\ events[tasks[k].event.id].raw_event = tasks[k].event.raw_event)
    /\ [](ProvenanceIds \subseteq DOMAIN events)
    /\ [][\A k \in DOMAIN tasks :
             tasks'[k] # tasks[k] => tasks[k].event.id \in DOMAIN events]_vars
    /\ [][last # NoResponse => last' \in {last, NoResponse}]_vars

\* the response has left the server and the projection has not begun
C7_Witness ==
    /\ last = NoResponse
    /\ Len(events) = 1
    /\ events[1].event_type = "push"
    /\ ~events[1].processed
    /\ tasks[1].pc = "start"

(***************************************************************************)
(* C9: a step of the projection of a github Event whose type is not push,  *)
(* pull_request or issues changes no Repository, Commit, PullRequest or    *)
(* Issue row; it marks the Event processed and ends the task, unless the   *)
(* UPDATE itself fails: the task never fails for the payload's shape.      *)
(***************************************************************************)
ProjectedTypes == {"push", "pull_request", "issues"}

C9_UnrecognizedTypeOnlyMarked ==
    [][\A k \in DOMAIN tasks :
          (/\ tasks'[k] # tasks[k]
           /\ tasks[k].event.source = "github"
           /\ tasks[k].event.event_type \notin ProjectedTypes)
          => /\ UNCHANGED domain
             /\ \/ /\ tasks'[k].pc = "done"
                   /\ events'[tasks[k].event.id].processed
                \/ /\ tasks'[k].pc = "failed"
                   /\ tasks'[k].err = Some("Database")
                   /\ events' = events]_vars

\* a ping delivery with the payload of a push has been projected
C9_Witness ==
    /\ Len(tasks) >= 1
    /\ tasks[1].pc = "done"
    /\ tasks[1].event.source = "github"
    /\ tasks[1].event.event_type = "ping"
    /\ tasks[1].event.raw_event = Push2Json
    /\ events[1].processed
    /\ repositories = <<>>

(***************************************************************************)
(* C10: a request to /webhook/{source} for a source other than github,     *)
(* with a JSON body and no signature, is answered 200; with every task     *)
(* scheduled fairly and no storage failure its Event is eventually marked  *)
(* processed; and no step of its projection creates or changes a           *)
(* Repository, Commit, PullRequest or Issue row, whatever its event type.  *)
(***************************************************************************)
C10_OtherSourceProcessedWithoutRows ==
    /\ [][(/\ Handled
           /\ OnGenericPath(last'.req)
           /\ last'.req.source # "github"
           /\ last'.req.body \in JsonBodies
           /\ DOMAIN last'.req.headers \cap SignatureHeaderNames = {})
          => /\ last'.status = 200
             /\ Len(events') = Len(events) + 1
             /\ events'[Len(events')].source = last'.req.source]_vars
    /\ \A id \in 1..MaxEvents :
          (id \in DOMAIN events /\ events[id].source # "github")
              ~> (id \in DOMAIN events /\ events[id].processed)
    /\ [][\A k \in DOMAIN tasks :
             (tasks'[k] # tasks[k] /\ tasks[k].event.source # "github")
                 => UNCHANGED domain]_vars
    /\ [](\A id \in ProvenanceIds : events[id].source = "github")

\* an unsigned push-typed event of a custom source is processed and the mirror is empty
C10_Witness ==
    /\ Len(events) >= 1
    /\ events[1].source = "custom-ci"
    /\ events[1].event_type = "push"
    /\ events[1].signature = None
    /\ events[1].processed
    /\ tasks[1].pc = "done"
    /\ repositories = <<>>
    /\ commits = <<>>

(***************************************************************************)
(* C11: from the empty store, an authentic github push delivery with two   *)
(* commits of distinct shas is answered 200 with the id of its Event; with *)
(* every task scheduled fairly and no storage failure the system reaches   *)
(* and stays in a state where that Event is processed, there is exactly    *)
(* one Repository row and exactly two Commit rows, and every Commit row    *)
(* references that repository and a push Event of the payload (that Event, *)
(* when it is the only push delivered).                                    *)
(***************************************************************************)
IsGithubPush(e) == e.source = "github" /\ e.event_type = "push"

PushEventIds == {e.id : e \in {x \in Rows(events) : IsGithubPush(x)}}

PushMirrored(id) ==
    /\ id \in DOMAIN events
    /\ events[id].processed
    /\ Len(repositories) = 1
    /\ Len(commits) = 2
    /\ {c.sha : c \in Rows(commits)} = {"sha-a", "sha-b"}
    /\ \A c \in Rows(commits) :
          /\ c.repository_id = repositories[1].id
          /\ c.webhook_event_id \in PushEventIds

C11_PushEndToEnd ==
    /\ [][(/\ Handled
           /\ last'.req \in PushRequests
           /\ Header(last'.req, "X-GitHub-Event") = Some("push"))
          => /\ last'.status = 200
             /\ last'.body.event_id = Len(events) + 1
             /\ Len(events') = Len(events) + 1
             /\ IsGithubPush(events'[Len(events')])]_vars
    /\ <>[](\A id \in DOMAIN events : IsGithubPush(events[id]) => PushMirrored(id))

\* one push and one ping were delivered: the rows reference the push
C11_Witness ==
    /\ Len(events) = 2
    /\ IsGithubPush(events[1])
    /\ events[2].event_type = "ping"
    /\ PushMirrored(1)
    /\ \A c \in Rows(commits) : c.webhook_event_id = 1
    /\ last = NoResponse

(***************************************************************************)
(* C12: projecting the two-commit push payload again leaves the rows that  *)
(* projecting it once leaves: one Repository row per github_id and one     *)
(* Commit row per (sha, repository_id), with the contents of the payload;  *)
(* a later run inserts no row for a key that is already there, and no row  *)
(* is removed or gets another key.                                         *)
(***************************************************************************)
\* the tables a single projection of the payload leaves in an empty store
OnceRepositories == Repository_create(<<>>, extract_repository(Push2Json).v, 0)

OnceCommits ==
    LET commit(i) == extract_commit(Unwrap(as_array(Idx(Push2Json, "commits")))[i], 1, 1).v
    IN Commit_create(Commit_create(<<>>, commit(1), 0), commit(2), 0)

\* a row without its provenance and its timestamps
RepositoryContent(r) == [r EXCEPT !.created_at = 0, !.updated_at = 0]
CommitContent(c) == [c EXCEPT !.webhook_event_id = 1, !.created_at = 0]

RepositoryKeys(table) == {r.github_id : r \in Rows(table)}
CommitKeys(table) == {<<c.sha, c.repository_id>> : c \in Rows(table)}

PushDone(t) == t.pc = "done" /\ IsGithubPush(t.event)

C12_RedeliveryUpserts ==
    /\ [](/\ Cardinality(RepositoryKeys(repositories)) = Len(repositories)
          /\ Cardinality(CommitKeys(commits)) = Len(commits)
          /\ {RepositoryContent(r) : r \in Rows(repositories)}
                \subseteq {RepositoryContent(r) : r \in Rows(OnceRepositories)}
          /\ {CommitContent(c) : c \in Rows(commits)}
                \subseteq {CommitContent(c) : c \in Rows(OnceCommits)})
    /\ []((\E k \in DOMAIN tasks : PushDone(tasks[k]))
             => /\ Len(repositories) = Len(OnceRepositories)
                /\ Len(commits) = Len(OnceCommits))
    /\ [][/\ \A i \in DOMAIN repositories :
                /\ i \in DOMAIN repositories'
                /\ repositories'[i].id = repositories[i].id
                /\ repositories'[i].github_id = repositories[i].github_id
          /\ \A i \in DOMAIN commits :
                /\ i \in DOMAIN commits'
                /\ commits'[i].id = commits[i].id
                /\ commits'[i].sha = commits[i].sha
                /\ commits'[i].repository_id = commits[i].repository_id]_vars

\* both deliveries of the payload have been projected
C12_Witness ==
    /\ Len(tasks) = 2
    /\ PushDone(tasks[1])
    /\ PushDone(tasks[2])
    /\ Len(repositories) = 1
    /\ Len(commits) = 2

(***************************************************************************)
(* C13: under every interleaving of the statements of concurrently running *)
(* projection tasks there is at most one Repository row per github_id, one *)
(* Commit row per (sha, repository_id), one PullRequest row per github_id  *)
(* and one Issue row per github_id.  The tasks take no lock: each upsert   *)
(* is a single statement.                                                  *)
(***************************************************************************)
GithubIds(table) == {r.github_id : r \in Rows(table)}

C13_OneRowPerKey ==
    /\ Cardinality(RepositoryKeys(repositories)) = Len(repositories)
    /\ Cardinality(CommitKeys(commits)) = Len(commits)
    /\ Cardinality(GithubIds(pull_requests)) = Len(pull_requests)
    /\ Cardinality(GithubIds(issues)) = Len(issues)

\* two tasks for the same repository are both past its upsert and not yet finished
C13_Witness ==
    /\ Len(tasks) = 2
    /\ tasks[1].pc \in {"commits", "pull_request", "issue"}
    /\ tasks[2].pc \in {"commits", "pull_request", "issue"}
    /\ tasks[1].repository_id = tasks[2].repository_id
    /\ Len(repositories) = 1

(***************************************************************************)
(* C14 (as stated): a projection that aborts because a required field is   *)
(* absent has created or modified no Repository, Commit, PullRequest or    *)
(* Issue row, and mark_processed was not called.  Checked where the Event  *)
(* is the only one delivered, so that every row is the work of its         *)
(* projection.  Refuted: the repository is upserted before the rest of the *)
(* payload is read, and the commits before the one that lacks a field are  *)
(* upserted too.                                                           *)
(***************************************************************************)
AbortedOnPayload(t) == t.pc = "failed" /\ t.err = Some("InvalidPayload")

C14_AsStated ==
    (Len(events) = 1 /\ Len(tasks) = 1 /\ AbortedOnPayload(tasks[1]))
        => /\ repositories = <<>>
           /\ commits = <<>>
           /\ pull_requests = <<>>
           /\ issues = <<>>
           /\ ~events[1].processed

(***************************************************************************)
(* C15: no step of the projection of a pull_request Event whose            *)
(* pull_request lacks base.ref creates or changes a PullRequest row, and   *)
(* no step of the projection of an issues Event whose issue lacks its user *)
(* creates or changes an Issue row; such Events are never processed.       *)
(***************************************************************************)
LacksPullRequestField(e) == e.event_type = "pull_request" /\ e.raw_event = PrNoBaseJson
LacksIssueField(e) == e.event_type = "issues" /\ e.raw_event = IssueNoUserJson

C15_NoPartialRow ==
    /\ [][\A k \in DOMAIN tasks :
             tasks'[k] # tasks[k]
                 => /\ LacksPullRequestField(tasks[k].event) => UNCHANGED pull_requests
                    /\ LacksIssueField(tasks[k].event) => UNCHANGED issues]_vars
    /\ [](\A e \in Rows(events) :
             (LacksPullRequestField(e) \/ LacksIssueField(e))
                 => /\ ~e.processed
                    /\ e.id \notin {r.webhook_event_id :
                                       r \in Rows(pull_requests) \cup Rows(issues)})

\* the projection of the pull request without base.ref has aborted after the
\* upsert of its repository
C15_Witness ==
    /\ Len(tasks) >= 1
    /\ LacksPullRequestField(tasks[1].event)
    /\ AbortedOnPayload(tasks[1])
    /\ repositories # <<>>
    /\ pull_requests = <<>>
    /\ ~events[1].processed

(***************************************************************************)
(* C16: an Event whose projection task has ended in failure or was lost    *)
(* when the process went down is unprocessed in every later state: the     *)
(* task never runs again, no second task is made for the Event, and the    *)
(* projection of a later delivery leaves its processed flag alone.         *)
(***************************************************************************)
Ended(t) == t.pc \in {"failed", "lost"}

C16_FailedStaysUnprocessed ==
    /\ [](\A k \in DOMAIN tasks :
             Ended(tasks[k]) => ~events[tasks[k].event.id].processed)
    /\ [][\A k \in DOMAIN tasks : Ended(tasks[k]) => tasks'[k] = tasks[k]]_vars
    /\ [](\A j, k \in DOMAIN tasks : tasks[j].event.id = tasks[k].event.id => j = k)

\* the first delivery of the pull request was lost, the second is processed
C16_Witness ==
    /\ Len(tasks) = 2
    /\ tasks[1].pc = "lost"
    /\ tasks[2].pc = "done"
    /\ tasks[1].event.raw_event = tasks[2].event.raw_event
    /\ tasks[1].event.delivery_id = tasks[2].event.delivery_id
    /\ ~events[1].processed
    /\ events[2].processed

(***************************************************************************)
(* C17: processed and processed_at of an Event change at most once: only   *)
(* from false/None to true/now, and only in the step in which the Event's  *)
(* own projection task ends successfully.  processed never goes back to    *)
(* false and processed_at, once set, is never overwritten.                 *)
(***************************************************************************)
C17_ProcessedOnce ==
    /\ [][\A id \in DOMAIN events :
             (\/ events'[id].processed # events[id].processed
              \/ events'[id].processed_at # events[id].processed_at)
                 => /\ ~events[id].processed
                    /\ events[id].processed_at = None
                    /\ events'[id].processed
                    /\ events'[id].processed_at = Some(clock)
                    /\ \E k \in DOMAIN tasks :
                          /\ tasks[k].event.id = id
                          /\ Running(tasks[k])
                          /\ tasks'[k].pc = "done"]_vars
    /\ [](\A e \in Rows(events) : e.processed <=> IsSome(e.processed_at))

\* two Events processed at different times keep their own processed_at
C17_Witness ==
    /\ Len(events) = 2
    /\ events[1].processed_at = Some(0)
    /\ events[2].processed_at = Some(1)
    /\ clock = 1

(***************************************************************************)
(* C18: no step deletes an Event row or changes its id, source,            *)
(* event_type, action, actor_name, actor_email, actor_id, raw_event,       *)
(* delivery_id, signature or received_at.                                  *)
(***************************************************************************)
ImmutablePart(e) ==
    <<e.id, e.source, e.event_type, e.action, e.actor_name, e.actor_email, e.actor_id,
      e.raw_event, e.delivery_id, e.signature, e.received_at>>

C18_EventImmutable ==
    [][\A id \in DOMAIN events :
          /\ id \in DOMAIN events'
          /\ ImmutablePart(events'[id]) = ImmutablePart(events[id])]_vars

\* a processed Event next to a later delivery with the same delivery id
C18_Witness ==
    /\ Len(events) = 2
    /\ events[1].processed
    /\ events[1].received_at = 0
    /\ events[2].received_at = 1
    /\ events[2].delivery_id = events[1].delivery_id
    /\ events[2].processed

(***************************************************************************)
(* C19 (as stated): Event::mark_processed(id) reports no error; for an id  *)
(* that does not exist it changes nothing; for an Event that it has marked *)
(* before it changes nothing, processed_at included.  Refuted: the UPDATE  *)
(* sets processed_at = NOW() again, so a second call at a later time       *)
(* overwrites processed_at.                                                *)
(***************************************************************************)
MarkProcessedCalled == Handled /\ last'.call = "mark_processed"

C19_AsStated ==
    [][MarkProcessedCalled
          => /\ last'.result.ok
             /\ last'.id \notin DOMAIN events => events' = events
             /\ (last'.id \in DOMAIN events /\ events[last'.id].processed)
                    => events' = events]_vars

(***************************************************************************)
(* C20: for every secret and body, verify_github_signature accepts the     *)
(* header "sha256=" + hex(HMAC-SHA256(secret, body)) and rejects the       *)
(* header "sha256=" + hex(d) of every digest d that differs from           *)
(* HMAC-SHA256(secret, body) in a bit or in length; so it rejects the      *)
(* signature of any other body and of any other secret.                    *)
(***************************************************************************)
VerifyCalled == last # NoResponse /\ last.call = "verify_github_signature"

C20_VerifyExact ==
    VerifyCalled
        => /\ last.result <=> (last.digest = HmacSha256(last.secret, last.payload))
           /\ \A b \in Bodies \ {last.payload} :
                 last.signature = SignatureFor(last.secret, b) => ~last.result

\* a digest that is right in its first byte only (the signature of another body) is rejected
C20_Witness ==
    /\ VerifyCalled
    /\ last.payload = "push2"
    /\ last.signature = SignatureFor(last.secret, "ping")
    /\ ~last.result

(***************************************************************************)
(* C21: verify_github_signature returns false, and changes neither the     *)
(* store nor the tasks, for every header that does not start with exactly  *)
(* "sha256=" and for every header whose text after that prefix is not      *)
(* well-formed hexadecimal (an even number of hex digits), whatever the    *)
(* secret and the body.                                                    *)
(***************************************************************************)
HexDigits == Rows(HexLower) \cup Rows(HexUpper)

StartsWithSha256(s) == Len(s) >= 7 /\ \A i \in 1..7 : s[i] = Sha256Prefix[i]

WellFormedHex(s) == Len(s) % 2 = 0 /\ \A i \in 1..Len(s) : s[i] \in HexDigits

MalformedHeader(s) == ~StartsWithSha256(s) \/ ~WellFormedHex(SubSeq(s, 8, Len(s)))

C21_MalformedRejected ==
    [][(Handled /\ last'.call = "verify_github_signature" /\ MalformedHeader(last'.signature))
          => (~last'.result /\ UNCHANGED <<store, tasks, clock>>)]_vars

\* the right digest under an upper-case prefix, and after "sha256=0x", is rejected
C21_Witness ==
    /\ VerifyCalled
    /\ last.signature \in
          {<<"S", "H", "A", "2", "5", "6", "=">>
              \o hex_encode(HmacSha256(last.secret, last.payload)),
           Sha256Prefix \o <<"0", "x">> \o hex_encode(HmacSha256(last.secret, last.payload))}
    /\ ~last.result

(***************************************************************************)
(* C22: for every store content and every combination of the optional      *)
(* predicates, count_filtered gives the number of Events that              *)
(* search_and_filter returns with offset 0 and a limit no smaller than the *)
(* store.                                                                  *)
(***************************************************************************)
Queried == last # NoResponse /\ last.call = "search_and_filter"

C22_AsStated ==
    Queried => /\ last.rows.ok
               /\ last.count.ok
               /\ last.count.v = Len(last.rows.v)

\* both functions append the same clauses with the same bindings
C22_SameConjunction ==
    \A f \in EventFilters :
        search_and_filter_query(f, per_page, 0).where = count_filtered_query(f).where

(***************************************************************************)
(* C23: deliveries are not deduplicated.  Every accepted request appends   *)
(* exactly one Event row, whose id is the next one and whose delivery_id   *)
(* is the one of the request, also when a row with that delivery_id and    *)
(* payload is stored already, and spawns one task for that row; no other   *)
(* step changes the number of rows, so that n accepted requests leave n    *)
(* rows with the ids 1..n.  Each row is marked processed only by a step of *)
(* its own task.                                                           *)
(***************************************************************************)
Accepted == Handled /\ last'.status = 200

C23_NotDeduplicated ==
    [][/\ Accepted
          => /\ Len(events') = Len(events) + 1
             /\ SubSeq(events', 1, Len(events)) = events
             /\ events'[Len(events')].id = Len(events) + 1
             /\ Some(events'[Len(events')].delivery_id)
                   = parse_str(last'.req.headers["X-GitHub-Delivery"])
             /\ Len(tasks') = Len(tasks) + 1
             /\ tasks'[Len(tasks')].event.id = Len(events) + 1
       /\ ~Accepted => Len(events') = Len(events)
       /\ \A i \in DOMAIN events' : events'[i].id = i
       /\ \A i \in DOMAIN events :
             events'[i].processed # events[i].processed
                => (i \in DOMAIN tasks /\ tasks[i].event.id = i /\ tasks'[i].pc # tasks[i].pc)]_vars

\* two rows with the same delivery id and payload, each processed by its own task
C23_Witness ==
    /\ Len(events) = 2
    /\ events[1].delivery_id = events[2].delivery_id
    /\ events[1].raw_event = events[2].raw_event
    /\ events[1].event_type = events[2].event_type
    /\ events[1].id < events[2].id
    /\ events[1].processed /\ events[2].processed
    /\ tasks[1].pc = "done" /\ tasks[2].pc = "done"

(***************************************************************************)
(* C24 (as stated): an Event's repository_id is None until its projection  *)
(* has run, and after a successful push, pull_request or issues projection *)
(* it is the id of the Repository the projection upserted.  Refuted: no    *)
(* statement of the projector writes events.repository_id, so the Event of *)
(* a projected push on the generic path keeps None; on the legacy path the *)
(* handler itself stores the id of a Repository it finds by full_name.     *)
(***************************************************************************)
C24_AsStated ==
    \A k \in DOMAIN tasks :
        /\ tasks[k].pc = "start" => events[k].repository_id = None
        /\ (tasks[k].pc = "done" /\ events[k].source = "github"
               /\ events[k].event_type \in ProjectedTypes)
              => /\ IsSome(events[k].repository_id)
                 /\ events[k].repository_id = tasks[k].repository_id

(***************************************************************************)
(* C25 (as stated): an unparseable timestamp in any field the projector    *)
(* reads (commit timestamp; pull request created_at, closed_at, merged_at; *)
(* issue created_at, closed_at) fails the projection: the Event stays      *)
(* unprocessed and no PullRequest or Issue row comes from it.  Refuted for *)
(* closed_at and merged_at, which are read leniently.                      *)
(***************************************************************************)
BadRequiredTimestamp(e) ==
    e.raw_event \in {PushBadTimeJson, PrBadCreatedJson, IssueBadTimeJson}

BadOptionalTimestamp(e) == e.raw_event \in {PrBadClosedJson, IssueBadClosedJson}

RowsFrom(id) ==
    {r \in Rows(pull_requests) \cup Rows(issues) : r.webhook_event_id = id}

C25_AsStated ==
    \A e \in Rows(events) :
        (BadRequiredTimestamp(e) \/ BadOptionalTimestamp(e))
            => (~e.processed /\ RowsFrom(e.id) = {})

(***************************************************************************)
(* C25 (amended): an unparseable timestamp is treated as a missing field.  *)
(* In a required field (commit timestamp, pull request created_at, issue   *)
(* created_at) it fails the projection: no Commit row is written for that  *)
(* commit, no PullRequest or Issue row is written, and the Event stays     *)
(* unprocessed.  In an optional field (pull request closed_at, merged_at;  *)
(* issue closed_at) it is read as absent: the row is written with that     *)
(* timestamp None, and the Event is processed.                             *)
(***************************************************************************)
\* the PullRequest or Issue rows with the github_id of the entity in e's payload
EntityRows(e) ==
    IF e.event_type = "pull_request"
    THEN {r \in Rows(pull_requests) :
             Some(r.github_id) = as_i64(Idx2(e.raw_event, "pull_request", "id"))}
    ELSE {r \in Rows(issues) : Some(r.github_id) = as_i64(Idx2(e.raw_event, "issue", "id"))}

C25_UnparseableAsMissing ==
    /\ \A e \in Rows(events) :
          BadRequiredTimestamp(e)
              => /\ ~e.processed
                 /\ RowsFrom(e.id) = {}
                 /\ \A c \in Rows(commits) : c.webhook_event_id = e.id => c.sha # "sha-b"
    /\ \A k \in DOMAIN tasks :
          /\ BadRequiredTimestamp(tasks[k].event) => tasks[k].pc # "done"
          /\ (BadOptionalTimestamp(tasks[k].event) /\ tasks[k].pc \in {"mark", "done"})
                => \E r \in EntityRows(tasks[k].event) :
                      /\ r.closed_at = None
                      /\ "merged_at" \in DOMAIN r => r.merged_at = None
          /\ (BadOptionalTimestamp(tasks[k].event) /\ tasks[k].pc = "done")
                => events[k].processed

\* the pull request with the unparseable created_at has failed without a row, the one
\* with the unparseable closed_at is stored with closed_at None and processed
C25_Witness ==
    /\ Len(tasks) = 2
    /\ tasks[1].event.raw_event = PrBadCreatedJson
    /\ AbortedOnPayload(tasks[1])
    /\ tasks[2].event.raw_event = PrBadClosedJson
    /\ tasks[2].pc = "done"
    /\ events[2].processed
    /\ \E r \in Rows(pull_requests) : r.webhook_event_id = 2 /\ r.closed_at = None

(***************************************************************************)
(* C26: within every projection the Repository upsert has completed before *)
(* any Commit, PullRequest or Issue upsert: a step that writes such a row  *)
(* is a step of a task that holds the id returned by its Repository        *)
(* upsert, and does not write repositories.  In every reachable state      *)
(* every Commit, PullRequest and Issue row has the repository_id of an     *)
(* existing Repository row and the webhook_event_id of an existing Event   *)
(* row.                                                                    *)
(***************************************************************************)
ChildRows == Rows(commits) \cup Rows(pull_requests) \cup Rows(issues)

RepositoryIds == {r.id : r \in Rows(repositories)}

C26_RepositoryFirst ==
    /\ [](\A r \in ChildRows :
             /\ r.repository_id \in RepositoryIds
             /\ r.webhook_event_id \in {e.id : e \in Rows(events)})
    /\ [][<<commits, pull_requests, issues>>' # <<commits, pull_requests, issues>>
             => /\ UNCHANGED repositories
                /\ \E k \in DOMAIN tasks :
                      /\ tasks'[k] # tasks[k]
                      /\ IsSome(tasks[k].repository_id)
                      /\ Unwrap(tasks[k].repository_id) \in RepositoryIds
                      /\ \A r \in {x \in ChildRows' : x \notin ChildRows} :
                            /\ r.repository_id = Unwrap(tasks[k].repository_id)
                            /\ r.webhook_event_id = tasks[k].event.id]_vars

\* a push and a pull request have been mirrored under one Repository row
C26_Witness ==
    /\ Len(repositories) = 1
    /\ commits # <<>>
    /\ pull_requests # <<>>
    /\ \A r \in ChildRows : r.repository_id = repositories[1].id

(***************************************************************************)
(* C27: the Repository upsert of a projection, for a github_id that has a  *)
(* row, keeps the number of rows and that row's id and github_id, replaces *)
(* its full_name, owner, description, is_private and url by the values of  *)
(* the payload, and leaves every other row alone; for a github_id without  *)
(* a row it appends exactly one row with a fresh id.  Nothing else writes  *)
(* repositories.                                                           *)
(***************************************************************************)
\* task k makes its Repository upsert in this step
UpsertsRepository(k) ==
    /\ tasks[k].pc = "start"
    /\ tasks'[k].pc \in {"commits", "pull_request", "issue"}

Refreshed(row, data) ==
    /\ row.github_id = data.github_id
    /\ row.full_name = data.full_name
    /\ row.owner = data.owner
    /\ row.description = data.description
    /\ row.is_private = data.is_private
    /\ row.url = data.url

C27_RepositoryUpsert ==
    [][/\ repositories' # repositories => \E k \in DOMAIN tasks : UpsertsRepository(k)
       /\ \A k \in DOMAIN tasks :
             UpsertsRepository(k)
                => LET data == extract_repository(tasks[k].event.raw_event).v
                       old == {i \in DOMAIN repositories :
                                  repositories[i].github_id = data.github_id}
                   IN /\ \A i \in DOMAIN repositories \ old :
                            repositories'[i] = repositories[i]
                      /\ IF old # {}
                         THEN /\ Len(repositories') = Len(repositories)
                              /\ \A i \in old :
                                    /\ repositories'[i].id = repositories[i].id
                                    /\ Refreshed(repositories'[i], data)
                         ELSE /\ Len(repositories') = Len(repositories) + 1
                              /\ Refreshed(repositories'[Len(repositories')], data)
                              /\ repositories'[Len(repositories')].id \notin RepositoryIds]_vars

\* the row made by the first push was refreshed by the push to the moved repository,
\* and the commit of the first push still refers to it
C27_Witness ==
    /\ Len(tasks) = 2
    /\ tasks[1].event.raw_event = Push2Json /\ tasks[1].pc = "done"
    /\ tasks[2].event.raw_event = PushRenamedJson /\ tasks[2].pc = "commits"
    /\ Len(repositories) = 1
    /\ repositories[1].full_name = "acme/bow"
    /\ repositories[1].is_private
    /\ \E c \in Rows(commits) : c.repository_id = repositories[1].id

(***************************************************************************)
(* C28.  Provenance of Commit rows.                                        *)
(***************************************************************************)
\* task k makes the Commit upsert of one turn of its loop in this step
UpsertsCommit(k) ==
    /\ tasks[k].pc = "commits"
    /\ tasks'[k].pc = "commits"
    /\ tasks'[k].i = tasks[k].i + 1

\* what the turn binds: the extracted CreateCommit
UpsertedCommit(k) ==
    extract_commit(Unwrap(as_array(Idx(tasks[k].event.raw_event, "commits")))[tasks[k].i],
                   Unwrap(tasks[k].repository_id), tasks[k].event.id).v

HasContent(row, data) ==
    /\ row.sha = data.sha
    /\ row.repository_id = data.repository_id
    /\ row.message = data.message
    /\ row.author_name = data.author_name
    /\ row.author_email = data.author_email
    /\ row.committer_name = data.committer_name
    /\ row.committer_email = data.committer_email
    /\ row.url = data.url

\* C28 as stated: when the projection of a push Event e upserts a commit, the
\* Commit row of that (sha, repository_id) ends with webhook_event_id = e.id and
\* with the message, author/committer identity and url of e's payload, also when
\* the row existed before.
C28_AsStated ==
    [][\A k \in DOMAIN tasks :
          UpsertsCommit(k)
             => \E i \in DOMAIN commits' :
                   /\ HasContent(commits'[i], UpsertedCommit(k))
                   /\ commits'[i].webhook_event_id = tasks[k].event.id]_vars

\* C28, amended: a Commit row keeps the webhook_event_id of the Event whose
\* projection inserted it.  An upsert on an existing (sha, repository_id) keeps
\* the row's id, key and webhook_event_id and replaces message, author/committer
\* identity and url by those of the new payload; an upsert on a new key appends
\* one row with webhook_event_id = e.id.  Nothing else writes commits, so every
\* row's webhook_event_id names a stored Event whose payload lists the row's sha.
C28_FirstSighting ==
    [][/\ commits' # commits => \E k \in DOMAIN tasks : UpsertsCommit(k)
       /\ \A k \in DOMAIN tasks :
             UpsertsCommit(k)
                => LET data == UpsertedCommit(k)
                       old == {i \in DOMAIN commits :
                                  /\ commits[i].sha = data.sha
                                  /\ commits[i].repository_id = data.repository_id}
                   IN /\ \A i \in DOMAIN commits \ old : commits'[i] = commits[i]
                      /\ IF old # {}
                         THEN /\ Len(commits') = Len(commits)
                              /\ \A i \in old :
                                    /\ commits'[i].id = commits[i].id
                                    /\ commits'[i].webhook_event_id = commits[i].webhook_event_id
                                    /\ HasContent(commits'[i], data)
                         ELSE /\ Len(commits') = Len(commits) + 1
                              /\ HasContent(commits'[Len(commits')], data)
                              /\ commits'[Len(commits')].webhook_event_id = tasks[k].event.id
       /\ \A c \in Rows(commits') :
             \E e \in Rows(events') :
                /\ e.id = c.webhook_event_id
                /\ \E cs \in {as_array(Idx(e.raw_event, "commits"))} :
                      /\ IsSome(cs)
                      /\ \E j \in DOMAIN Unwrap(cs) :
                            as_str(Idx(Unwrap(cs)[j], "id")) = Some(c.sha)]_vars

\* the second push reworded a commit of the first: the row has the new message and
\* still names the first Event
C28_Witness ==
    /\ Len(tasks) = 2
    /\ tasks[1].event.raw_event = Push2Json /\ tasks[1].pc = "done"
    /\ tasks[2].event.raw_event = PushRenamedJson /\ tasks[2].pc = "done"
    /\ \E c \in Rows(commits) :
          /\ c.sha = "sha-a"
          /\ c.message = "reworded"
          /\ c.webhook_event_id = tasks[1].event.id
          /\ tasks[1].event.id # tasks[2].event.id


(***************************************************************************)
(* C29.  PullRequest and Issue upserts on an existing github_id.           *)
(***************************************************************************)
\* task k makes its PullRequest (Issue) upsert in this step
UpsertsPullRequest(k) == tasks[k].pc = "pull_request" /\ tasks'[k].pc = "mark"

UpsertsIssue(k) == tasks[k].pc = "issue" /\ tasks'[k].pc = "mark"

\* what the step binds: the extracted CreatePullRequest (CreateIssue)
UpsertedPullRequest(k) ==
    extract_pull_request(Idx(tasks[k].event.raw_event, "pull_request"),
                         Unwrap(tasks[k].repository_id), tasks[k].event.id).v

UpsertedIssue(k) ==
    extract_issue(Idx(tasks[k].event.raw_event, "issue"),
                  Unwrap(tasks[k].repository_id), tasks[k].event.id).v

PullRequestRefreshed(row, data) ==
    /\ row.github_id = data.github_id
    /\ row.title = data.title
    /\ row.state = data.state
    /\ row.author = data.author
    /\ row.base_branch = data.base_branch
    /\ row.head_branch = data.head_branch
    /\ row.closed_at = data.closed_at
    /\ row.merged_at = data.merged_at

IssueRefreshed(row, data) ==
    /\ row.github_id = data.github_id
    /\ row.title = data.title
    /\ row.state = data.state
    /\ row.author = data.author
    /\ row.labels = data.labels
    /\ row.closed_at = data.closed_at

\* the upsert of `data` took `table` to `table2`: one row per github_id, the
\* surrogate id kept, the other rows untouched; Fresh(new, old) is what must hold
\* of the row of data.github_id, old being the row it replaces (None if new)
UpsertedBy(table, table2, data, Fresh(_, _)) ==
    LET old == {i \in DOMAIN table : table[i].github_id = data.github_id}
    IN /\ \A i \in DOMAIN table \ old : table2[i] = table[i]
       /\ \A i, j \in DOMAIN table2 :
             table2[i].github_id = table2[j].github_id => i = j
       /\ IF old # {}
          THEN /\ Len(table2) = Len(table)
               /\ \A i \in old : /\ table2[i].id = table[i].id
                                 /\ Fresh(table2[i], Some(table[i]))
          ELSE /\ Len(table2) = Len(table) + 1
               /\ Fresh(table2[Len(table2)], None)

\* C29 as stated: an upsert on an existing github_id leaves one row per github_id
\* with its surrogate id, and the row's title, state, author, branches (pull
\* request), labels (issue), opened_at, closed_at and merged_at are those of the
\* new payload.
C29_AsStated ==
    [][\A k \in DOMAIN tasks :
          /\ UpsertsPullRequest(k)
                => LET data == UpsertedPullRequest(k)
                       Fresh(new, old) == /\ PullRequestRefreshed(new, data)
                                          /\ new.opened_at = data.opened_at
                   IN UpsertedBy(pull_requests, pull_requests', data, Fresh)
          /\ UpsertsIssue(k)
                => LET data == UpsertedIssue(k)
                       Fresh(new, old) == /\ IssueRefreshed(new, data)
                                          /\ new.opened_at = data.opened_at
                   IN UpsertedBy(issues, issues', data, Fresh)]_vars

\* C29, amended: as above for title, state, author, branches, labels, closed_at
\* and merged_at (a null closed_at of the new payload clears the stored one), but
\* opened_at is written only when the row is inserted: an upsert on an existing
\* github_id keeps the opened_at of the first sighting.  Nothing else writes
\* pull_requests or issues.
C29_RefreshExceptOpenedAt ==
    [][/\ pull_requests' # pull_requests => \E k \in DOMAIN tasks : UpsertsPullRequest(k)
       /\ issues' # issues => \E k \in DOMAIN tasks : UpsertsIssue(k)
       /\ \A k \in DOMAIN tasks :
             /\ UpsertsPullRequest(k)
                   => LET data == UpsertedPullRequest(k)
                          Fresh(new, old) ==
                              /\ PullRequestRefreshed(new, data)
                              /\ new.opened_at = IF IsSome(old) THEN Unwrap(old).opened_at
                                                 ELSE data.opened_at
                      IN UpsertedBy(pull_requests, pull_requests', data, Fresh)
             /\ UpsertsIssue(k)
                   => LET data == UpsertedIssue(k)
                          Fresh(new, old) ==
                              /\ IssueRefreshed(new, data)
                              /\ new.opened_at = IF IsSome(old) THEN Unwrap(old).opened_at
                                                 ELSE data.opened_at
                      IN UpsertedBy(issues, issues', data, Fresh)]_vars

\* a closed pull request was reopened: one row, retitled, closed_at cleared,
\* opened_at still that of the first payload
C29_Witness ==
    /\ Len(tasks) = 2
    /\ tasks[1].event.raw_event = PrJson /\ tasks[1].pc = "done"
    /\ tasks[2].event.raw_event = PrReopenedJson /\ tasks[2].pc = "mark"
    /\ Len(pull_requests) = 1
    /\ pull_requests[1].title = "fix v2"
    /\ pull_requests[1].state = "open"
    /\ pull_requests[1].closed_at = None
    /\ pull_requests[1].opened_at = Unwrap(parse_datetime("2024-01-01T00:00:00Z"))


(***************************************************************************)
(* C30.  extract_event_type is total, and returns: for github the text of  *)
(* the X-GitHub-Event header, else "unknown"; for gitlab the text of the   *)
(* X-Gitlab-Event header, else the string payload.object_kind, else        *)
(* "unknown"; for auth0 the string payload.type, else the string           *)
(* payload.event, else "unknown"; for every other source the string        *)
(* payload.type, else payload.event, else payload.event_type, else         *)
(* "webhook".  Every accepted request to /webhook/{source} is stored with  *)
(* that event type; a signed github request there without X-GitHub-Event   *)
(* is accepted and stored with event_type "unknown", and its task marks    *)
(* the Event processed and writes no domain row.                           *)
(***************************************************************************)
ExtractCalled ==
    last # NoResponse /\ "call" \in DOMAIN last /\ last.call = "extract_event_type"

\* header `name` of req has a text value
TextHeader(req, name) == name \in DOMAIN req.headers /\ name \notin OpaqueHeaders(req)

\* field f of the payload is a string
StrField(payload, f) ==
    payload.t = "obj" /\ f \in DOMAIN payload.o /\ payload.o[f].t = "str"

\* the first of the fields fs that is a string, else d
RECURSIVE FirstStr(_, _, _)
FirstStr(payload, fs, d) ==
    IF fs = <<>> THEN d
    ELSE IF StrField(payload, Head(fs)) THEN payload.o[Head(fs)].s
    ELSE FirstStr(payload, Tail(fs), d)

ExpectedEventType(source, payload, req) ==
    IF source = "github"
    THEN IF TextHeader(req, "X-GitHub-Event") THEN req.headers["X-GitHub-Event"]
         ELSE "unknown"
    ELSE IF source = "gitlab"
    THEN IF TextHeader(req, "X-Gitlab-Event") THEN req.headers["X-Gitlab-Event"]
         ELSE FirstStr(payload, <<"object_kind">>, "unknown")
    ELSE IF source = "auth0" THEN FirstStr(payload, <<"type", "event">>, "unknown")
    ELSE FirstStr(payload, <<"type", "event", "event_type">>, "webhook")

\* the response of a handler (not the record of a call)
Responded == Handled /\ "call" \notin DOMAIN last'

SignedWithoutEventType(req) ==
    /\ req.source = "github"
    /\ ~TextHeader(req, "X-GitHub-Event")
    /\ Header(req, "X-Hub-Signature-256")
          = Some(SignatureFor(github_webhook_secret, req.body))

C30_EventType ==
    /\ [](ExtractCalled
             => last.result = ExpectedEventType(last.source, last.payload, last.req))
    /\ [][/\ (Responded /\ last'.status = 200)
             => /\ Len(events') = Len(events) + 1
                /\ events'[Len(events')].event_type
                      = ExpectedEventType(last'.req.source, RequestPayload(last'.req),
                                          last'.req)
          /\ (Responded /\ SignedWithoutEventType(last'.req))
             => /\ last'.status = 200
                /\ events'[Len(events')].event_type = "unknown"
          /\ \A k \in DOMAIN tasks :
                (/\ tasks'[k] # tasks[k]
                 /\ tasks[k].event.source = "github"
                 /\ tasks[k].event.event_type = "unknown")
                   => /\ UNCHANGED domain
                      /\ tasks'[k].pc = "done"
                      /\ events'[tasks[k].event.id].processed]_vars

\* the signed push without X-GitHub-Event is stored as "unknown" and processed
\* without a row, and the type of another source came from payload.event because
\* payload.type is no string
C30_Witness ==
    /\ Len(events) = 1
    /\ events[1].source = "github"
    /\ events[1].event_type = "unknown"
    /\ events[1].raw_event = Push2Json
    /\ events[1].processed
    /\ tasks[1].pc = "done"
    /\ repositories = <<>> /\ commits = <<>>
    /\ ExtractCalled
    /\ last.source = "custom-ci"
    /\ last.payload = EventOnlyJson
    /\ last.result = "signup"


(***************************************************************************)
(* C31 (as stated): search_and_filter returns exactly the Events that      *)
(* satisfy every supplied predicate, newest received first, cut to         *)
(* limit/offset; an absent predicate places no constraint, and an Event    *)
(* whose action or actor_name is null is returned when those predicates    *)
(* are absent and never when they are supplied.  Refuted: the limit and    *)
(* the offset are bound as text, so the statement is rejected and the call *)
(* returns an error for every filter.                                      *)
(***************************************************************************)
\* Event e satisfies every supplied predicate of f
FilterHolds(e, f) ==
    /\ IsSome(f.source) => e.source = Unwrap(f.source)
    /\ IsSome(f.event_type) => e.event_type = Unwrap(f.event_type)
    /\ IsSome(f.action) => (IsSome(e.action) /\ e.action = f.action)
    /\ IsSome(f.actor_name) => (IsSome(e.actor_name) /\ e.actor_name = f.actor_name)
    /\ IsSome(f.processed) => e.processed = Unwrap(f.processed)
    /\ (IsSome(f.search) /\ Unwrap(f.search) # "") => ILike(e.raw_event, Unwrap(f.search))

\* the Events of the store that satisfy f, newest first, cut to limit/offset
ExpectedRows(evs, f, limit, offset) ==
    LET hits == SelectSeq(evs, LAMBDA e : FilterHolds(e, f))
        newest == [i \in 1..Len(hits) |-> hits[Len(hits) + 1 - i]]
    IN SubSeq(newest, offset + 1,
              IF offset + limit < Len(newest) THEN offset + limit ELSE Len(newest))

C31_AsStated ==
    Queried => last.rows = Ok(ExpectedRows(events, last.filter, last.limit, 0))


(***************************************************************************)
(* C32.  The signature is verified over the raw bytes of the body: on both *)
(* endpoints a request whose signature was computed, with the configured   *)
(* secret, for another byte string that parses to the same JSON value is   *)
(* answered 401 and changes neither the store nor the tasks, while the     *)
(* request signed for its own bytes is never answered 401.                 *)
(***************************************************************************)
\* req carries the signature of the bytes `signed`
SignedFor(req, signed) ==
    Header(req, "X-Hub-Signature-256") = Some(SignatureFor(github_webhook_secret, signed))

\* req carries the signature of other bytes with the same parse
SignedForSameJson(req) ==
    \E b \in Bodies \ {req.body} : from_slice(b) = from_slice(req.body) /\ SignedFor(req, b)

C32_RawBytes ==
    [][Responded
          => /\ SignedForSameJson(last'.req)
                => /\ last'.status = 401
                   /\ UNCHANGED <<store, tasks>>
             /\ SignedFor(last'.req, last'.req.body) => last'.status # 401]_vars

\* "ping " sent with the signature of "ping" to the legacy endpoint was answered
\* 401, after a delivery of the same JSON value had been accepted
C32_Witness ==
    /\ last # NoResponse
    /\ last.status = 401
    /\ last.req.path = "/webhooks/github"
    /\ last.req.body = "ping "
    /\ SignedFor(last.req, "ping")
    /\ Len(events) = 1
    /\ events[1].raw_event = Unwrap(from_slice("ping "))


(***************************************************************************)
(* C33 (as stated): for every page and per_page, limit() is within         *)
(* [1, 100], offset() is non-negative, and for every page p >= 1           *)
(* offset(p + 1) = offset(p) + limit(); without parameters page is 1 and   *)
(* per_page is 20.  Refuted: offset() multiplies by per_page itself, not   *)
(* by the clamped limit().                                                 *)
(***************************************************************************)
Paged == last # NoResponse /\ "call" \in DOMAIN last /\ last.call = "list_repositories"

C33_AsStated ==
    Paged
       => /\ last.limit \in 1..100
          /\ last.offset.ok
          /\ last.offset.v >= 0
          /\ (last.params.page >= 1 /\ last.params.page < I64Max)
                => PaginationParams_offset([last.params EXCEPT !.page = @ + 1],
                                           last.overflow_checks)
                      = Ok(last.offset.v + last.limit)
          /\ last.query.page = None => last.params.page = 1
          /\ last.query.per_page = None => last.params.per_page = 20

\* what holds of the window: the limit is within [1, 100] and the defaults are 1
\* and 20; for a per_page within [1, 100] and a page >= 1 without overflow the
\* window is gap-free
C33_WindowWithinBounds ==
    Paged
       => /\ last.limit \in 1..100
          /\ last.query.page = None => last.params.page = 1
          /\ last.query.per_page = None => last.params.per_page = 20
          /\ (last.params.per_page \in 1..100 /\ last.params.page \in 1..3)
                => /\ last.offset = Ok((last.params.page - 1) * last.limit)
                   /\ PaginationParams_offset([last.params EXCEPT !.page = @ + 1],
                                              last.overflow_checks)
                         = Ok(last.offset.v + last.limit)


(***************************************************************************)
(* C34.  Only the path segment "github", spelled exactly so, is gated and  *)
(* projected.  A request to /webhook/{s} for another spelling s with a     *)
(* JSON body is answered 200 whatever signature it carries or lacks; its   *)
(* Event is stored with source s and without signature; every step of its  *)
(* task leaves repositories, commits, pull_requests and issues unchanged,  *)
(* also when the payload is a well-formed push; and the Event is           *)
(* eventually marked processed.                                            *)
(***************************************************************************)
OtherSpelling(s) == s # "github" /\ s \in Spellings

C34_ExactSpelling ==
    /\ [][(Responded /\ OnGenericPath(last'.req) /\ OtherSpelling(last'.req.source)
              /\ last'.req.body \in JsonBodies)
             => /\ last'.status = 200
                /\ Len(events') = Len(events) + 1
                /\ events'[Len(events')].source = last'.req.source
                /\ events'[Len(events')].signature = None
                /\ events'[Len(events')].raw_event = RequestPayload(last'.req)
                /\ ~events'[Len(events')].processed]_vars
    /\ [][\A k \in DOMAIN tasks :
             (tasks'[k] # tasks[k] /\ OtherSpelling(tasks[k].event.source))
                => /\ UNCHANGED domain
                   /\ tasks'[k].pc = "done"
                   /\ events'[tasks[k].event.id].processed]_vars
    /\ <>[](\A id \in DOMAIN events :
               OtherSpelling(events[id].source) => events[id].processed)

\* a well-formed push to /webhook/GitHub, of event type "push", is stored,
\* processed, and has left the mirror empty
C34_Witness ==
    /\ Len(events) = 1
    /\ events[1].source = "GitHub"
    /\ events[1].event_type = "push"
    /\ events[1].raw_event = CustomPushJson
    /\ events[1].signature = None
    /\ events[1].processed
    /\ tasks[1].pc = "done"
    /\ repositories = <<>> /\ commits = <<>>


(***************************************************************************)
(* C35.  The mirror is last-upsert-wins.  Whenever a task upserts its      *)
(* PullRequest, Issue or Repository, the row of that github_id takes the   *)
(* values of that task's payload, whether the Events that wrote the row    *)
(* before were accepted earlier or later; the tasks of two accepted Events *)
(* may make their upserts in either order, so that a state is reachable    *)
(* (C35_Witness) in which both Events are processed and the row holds the  *)
(* values of the Event with the smaller id.                                *)
(***************************************************************************)
\* the row of the github_id of `data` in `table`
RowOf(table, data) == {r \in Rows(table) : r.github_id = data.github_id}

C35_LastUpsertWins ==
    [][\A k \in DOMAIN tasks :
          /\ UpsertsPullRequest(k)
                => \A r \in RowOf(pull_requests', UpsertedPullRequest(k)) :
                      /\ r.state = UpsertedPullRequest(k).state
                      /\ r.title = UpsertedPullRequest(k).title
          /\ UpsertsIssue(k)
                => \A r \in RowOf(issues', UpsertedIssue(k)) :
                      /\ r.state = UpsertedIssue(k).state
                      /\ r.title = UpsertedIssue(k).title
          /\ UpsertsRepository(k)
                => \A r \in RowOf(repositories',
                                  extract_repository(tasks[k].event.raw_event).v) :
                      r.full_name = extract_repository(tasks[k].event.raw_event).v.full_name
          /\ \A j \in DOMAIN tasks :
                (j # k /\ tasks'[k] # tasks[k]) => tasks'[j] = tasks[j]]_vars

\* the pull request was closed (Event 1) and then reopened (Event 2); both Events
\* are processed and the row says closed, with the title of Event 1
C35_Witness ==
    /\ Len(events) = 2
    /\ events[1].raw_event = PrJson /\ events[2].raw_event = PrReopenedJson
    /\ events[1].id < events[2].id
    /\ events[1].processed /\ events[2].processed
    /\ tasks[1].pc = "done" /\ tasks[2].pc = "done"
    /\ Len(pull_requests) = 1
    /\ pull_requests[1].state = "closed"
    /\ pull_requests[1].title = "fix"
    /\ pull_requests[1].closed_at # None


(***************************************************************************)
(* C36.  The two records of the legacy path.  A request to                 *)
(* /webhooks/github that is answered 200 has appended one webhook_events   *)
(* row and one events row, with the same delivery id, event type and       *)
(* payload, by two statements of which the first is                        *)
(* WebhookEvent::create; when that one succeeds and Event::create fails,   *)
(* the webhook_events row stays and no events row and no task exist for    *)
(* it.  Only the legacy handler writes webhook_events, always by           *)
(* appending, and every webhook_events row is unprocessed in every state,  *)
(* also when the events row of its delivery is processed.                  *)
(***************************************************************************)
LegacyResponded == Responded /\ OnLegacyPath(last'.req)

C36_TwoRecords ==
    /\ [](\A w \in Rows(webhook_events) : ~w.processed /\ w.processed_at = None)
    /\ [][/\ (LegacyResponded /\ last'.status = 200)
             => /\ last'.stmts = <<Stmt("WebhookEvent::create", TRUE),
                                   Stmt("Event::create", TRUE)>>
                /\ Len(webhook_events') = Len(webhook_events) + 1
                /\ Len(events') = Len(events) + 1
                /\ LET w == webhook_events'[Len(webhook_events')]
                       e == events'[Len(events')]
                   IN /\ w.delivery_id = e.delivery_id
                      /\ w.event_type = e.event_type
                      /\ w.payload = e.raw_event
                      /\ e.source = "github"
          /\ (LegacyResponded /\ EventCreateFailed(last'))
             => /\ last'.status = 500
                /\ Len(webhook_events') = Len(webhook_events) + 1
                /\ events' = events
                /\ tasks' = tasks
          /\ webhook_events' # webhook_events
             => /\ LegacyResponded
                /\ SubSeq(webhook_events', 1, Len(webhook_events)) = webhook_events]_vars

\* the first delivery lost its events row, the second has both rows and its Event
\* is processed while its webhook_events row is not
C36_Witness ==
    /\ Len(webhook_events) = 2
    /\ Len(events) = 1
    /\ events[1].delivery_id = webhook_events[2].delivery_id
    /\ events[1].processed
    /\ tasks[1].pc = "done"
    /\ ~webhook_events[1].processed /\ ~webhook_events[2].processed


(***************************************************************************)
(* C37.  The actor of a GitHub payload on the two paths.  The Event stored *)
(* by /webhook/github has actor_name = sender.login, else pusher.name,     *)
(* else None, and actor_id = sender.login, else sender.id in decimal, else *)
(* None; the Event stored by /webhooks/github has actor_name and           *)
(* actor_email with the further fallback commits[0].author.name and        *)
(* .email, and actor_id with the further fallback pusher.name.  Two stored *)
(* Events with the same payload that has a string sender.login have the    *)
(* same actor_name and actor_id.                                           *)
(***************************************************************************)
\* the string at payload.a.b, if there is one
StrAt(payload, a, b) ==
    IF payload.t = "obj" /\ a \in DOMAIN payload.o /\ payload.o[a].t = "obj"
          /\ b \in DOMAIN payload.o[a].o /\ payload.o[a].o[b].t = "str"
    THEN Some(payload.o[a].o[b].s)
    ELSE None

\* payload.sender.id in decimal, if it is an integer
SenderId(payload) ==
    IF payload.t = "obj" /\ "sender" \in DOMAIN payload.o /\ payload.o.sender.t = "obj"
          /\ "id" \in DOMAIN payload.o.sender.o /\ payload.o.sender.o.id.t = "int"
    THEN Some(IntToString(payload.o.sender.o.id.i))
    ELSE None

\* commits[0] of the payload
Commit0(payload) ==
    IF payload.t = "obj" /\ "commits" \in DOMAIN payload.o /\ payload.o.commits.t = "arr"
          /\ payload.o.commits.a # <<>>
    THEN payload.o.commits.a[1]
    ELSE JNull

\* the first of the options that is Some
RECURSIVE FirstSome(_)
FirstSome(os) ==
    IF os = <<>> THEN None ELSE IF IsSome(Head(os)) THEN Head(os) ELSE FirstSome(Tail(os))

C37_ActorFields ==
    /\ [][(Responded /\ last'.status = 200 /\ last'.req.source = "github")
             => LET e == events'[Len(events')]
                    p == e.raw_event
                IN IF OnGenericPath(last'.req)
                   THEN /\ e.actor_name = FirstSome(<<StrAt(p, "sender", "login"),
                                                      StrAt(p, "pusher", "name")>>)
                        /\ e.actor_id = FirstSome(<<StrAt(p, "sender", "login"),
                                                    SenderId(p)>>)
                   ELSE /\ e.actor_name = FirstSome(<<StrAt(p, "sender", "login"),
                                                      StrAt(p, "pusher", "name"),
                                                      StrAt(Commit0(p), "author", "name")>>)
                        /\ e.actor_email = FirstSome(<<StrAt(p, "sender", "email"),
                                                       StrAt(p, "pusher", "email"),
                                                       StrAt(Commit0(p), "author", "email")>>)
                        /\ e.actor_id = FirstSome(<<StrAt(p, "sender", "login"),
                                                    SenderId(p),
                                                    StrAt(p, "pusher", "name")>>)]_vars
    /\ [](\A e1, e2 \in Rows(events) :
             (e1.raw_event = e2.raw_event /\ IsSome(StrAt(e1.raw_event, "sender", "login")))
                => /\ e1.actor_name = e2.actor_name
                   /\ e1.actor_id = e2.actor_id)

\* the same push was delivered to both endpoints: the two Events agree on the
\* actor's name and differ in the actor's id
C37_Witness ==
    /\ Len(events) = 2
    /\ events[1].raw_event = Push2Json /\ events[2].raw_event = Push2Json
    /\ tasks[1].entry = "process_event_by_source"
    /\ tasks[2].entry = "process_github_event"
    /\ events[1].actor_name = Some("ann") /\ events[2].actor_name = Some("ann")
    /\ events[1].actor_id = None
    /\ events[2].actor_id = Some("ann")


(***************************************************************************)
(* C38.  In search_and_filter and count_filtered only the free-text        *)
(* predicate treats the empty string as absent: a supplied empty source,   *)
(* event_type, action or actor_name becomes an equality clause with the    *)
(* empty string, in both queries alike, an empty search text becomes no    *)
(* clause, and the conjunction selects, and count_filtered counts, only    *)
(* the Events whose field is the empty string: none for a source that is   *)
(* never empty, and no Event whose action or actor_name is null.           *)
(***************************************************************************)
ListedEvents == last # NoResponse /\ "call" \in DOMAIN last /\ last.call = "list_events"

EqualityColumns == {"source", "event_type", "action", "actor_name"}

\* the store's Events whose column is the empty string; a null column is none
IsEmptyText(e, column) ==
    CASE column = "source" -> e.source = ""
      [] column = "event_type" -> e.event_type = ""
      [] column = "action" -> e.action = Some("")
      [] column = "actor_name" -> e.actor_name = Some("")

C38_EmptyStringIsAValue ==
    ListedEvents =>
        LET f == last.filter
            hits == SelectSeq(events, LAMBDA e : FilterHolds(e, f))
        IN /\ last.search_where = last.count_where
           /\ \A c \in EqualityColumns :
                  (f[c] = Some("")) <=>
                      \E i \in DOMAIN last.count_where :
                          /\ last.count_where[i].column = c
                          /\ last.count_where[i].op = "="
                          /\ last.count_where[i].bind = ""
           /\ f.search = Some("") =>
                  \A i \in DOMAIN last.count_where :
                      last.count_where[i].column # "raw_event::text"
           /\ last.selected = hits
           /\ \A c \in EqualityColumns :
                  f[c] = Some("") =>
                      \A i \in DOMAIN last.selected : IsEmptyText(last.selected[i], c)
           /\ last.count.ok => last.count.v = Len(hits)

\* two Events stored, the older with a null action and the newer with the action "";
\* the filter action = "" with an empty search text counts the newer alone
C38_Witness ==
    /\ ListedEvents
    /\ Len(events) = 2
    /\ events[1].action = None
    /\ events[2].action = Some("")
    /\ last.filter.action = Some("")
    /\ last.filter.search = Some("")
    /\ last.filter.source = None
    /\ last.count = Ok(1)
    /\ Len(last.selected) = 1
====
